---- MODULE Spec2Model ----
(***************************************************************************)
(* Model of the managed client multiplexer of the modbus library:          *)
(*   ClientManager.go  clientManager (SetupClient, requestListener,        *)
(*                     handleClientRequest, clientRequest.sendResponse)    *)
(*   Client.go         ClientHandle (Send, Close), client (NewClientHandle,*)
(*                     start, queryListener, queryQueueChannelMonitor),    *)
(*                     query.sendResponse                                  *)
(* Every goroutine is a process; an unbuffered channel operation is a      *)
(* rendezvous step taken when both sides are at the channel operation.     *)
(***************************************************************************)
EXTENDS Naturals, Integers, FiniteSets, Sequences, TLC

\* ---- bounds ----
NumCallers == 2
MaxAcquires == 2
\* goroutines that share one ClientHandle, and the calls they make on it
NumGoroutines == 2
MaxCalls == 3
\* goroutines that call GetClientManager or NewClient, and their calls
NumInitializers == 2
MaxInitCalls == 4
\* calls of Send made on one packager
MaxSends == 2
\* exchanges a TCP packager has behind it when its counter is about to wrap
LongRun == 65534
\* goroutines that share one Client made by NewClient, and their calls of
\* NewClientHandle
NumOpeners == 2
MaxOpens == 3

\* ---- input domains ----
\* ConnectionSettings.Host values
Hosts == {"hostA", "hostB"}
\* ConnectionSettings.Baud values; they stand for the fields Baud and
\* Timeout, which the code compares as part of one struct value.
Bauds == {9600, 19200}

\* Modbus function codes (Constants.go); Mask Write Register is 0x16.
FunctionReadCoils == 1
FunctionReadDiscreteInputs == 2
FunctionReadHoldingRegisters == 3
FunctionReadInputRegisters == 4
FunctionWriteSingleCoil == 5
FunctionWriteSingleRegister == 6
FunctionWriteMultipleCoils == 15
FunctionWriteMultipleRegisters == 16
FunctionMaskWriteRegister == 22
FunctionEncapsulatedInterface == 43

\* Query.FunctionCode values: the codes of Constants.go, 0 (the zero value)
\* and 0xff.
FunctionCodes ==
    {FunctionReadCoils, FunctionReadDiscreteInputs,
     FunctionReadHoldingRegisters, FunctionReadInputRegisters,
     FunctionWriteSingleCoil, FunctionWriteSingleRegister,
     FunctionWriteMultipleCoils, FunctionWriteMultipleRegisters,
     FunctionMaskWriteRegister, FunctionEncapsulatedInterface, 0, 255}
\* Query.SlaveID values
SlaveIDs == {0, 1}
\* Query.Address values (uint16): the low end, and addresses whose sum with
\* a quantity passes 65535
Addresses == {0, 1, 65408, 65535}
\* Query.Quantity values (uint16): around the multiples of 8 and 16 and
\* around the maxima 123, 125 and 2000
Quantities == {0, 1, 8, 9, 16, 17, 123, 124, 125, 126, 128, 2000, 2001}
\* n words, the i-th with both bytes equal to i % 256
Words(n) == [i \in 1..n |-> (i % 256) * 257]
\* Query.Values values ([]uint16)
ValuesSet ==
    {<<>>, <<0>>, <<1>>, <<65280>>, <<4660>>, <<1, 2>>, <<4660, 43981>>,
     <<1, 2, 3>>, Words(8), Words(123), Words(125), Words(128)}
\* Query
Queries ==
    [FunctionCode : FunctionCodes, SlaveID : SlaveIDs, Address : Addresses,
     Quantity : Quantities, Values : ValuesSet]
\* The queries handed to a packager's Send: Values is left empty for the
\* read functions and Quantity zero for the functions that ignore it.
SendQueries ==
    {q \in [FunctionCode : FunctionCodes, SlaveID : SlaveIDs,
            Address : {3, 258}, Quantity : {0, 1, 9},
            Values : {<<>>, <<1>>, <<1, 2>>}] :
        /\ q.Address = IF q.FunctionCode \in {3, 4, 16} THEN 3 ELSE 258
        /\ q.FunctionCode \in {1, 2, 3, 4} => q.Values = <<>>
        /\ q.FunctionCode \in {5, 6, 22} => q.Quantity = 0}
\* The zero value of Query.
NoQuery ==
    [FunctionCode |-> 0, SlaveID |-> 0, Address |-> 0, Quantity |-> 0,
     Values |-> <<>>]

Callers == 1..NumCallers
\* The goroutines that call NewClientHandle on the Client of NewClient; at
\* most one monitor is started per call.
Openers == 1..NumOpeners
MonitorIds == 1..MaxOpens
\* At most one client object and one handle is created per SetupClient call.
ClientIds == 1..MaxAcquires
HandleIds == 1..MaxAcquires

\* The Mode constants of Constants.go, and a Mode that is none of them.
ModeTCP == 0
ModeRTU == 1
ModeASCII == 2
InvalidMode == 10
ValidModes == {ModeTCP, ModeRTU, ModeASCII}
\* ConnectionSettings.Mode values
Modes == {ModeTCP, InvalidMode}

\* The settings callers pass: every Host and Baud with a valid Mode, and one
\* value with a Mode that is none of the three.
ConnectionSettings ==
    {cs \in [Host : Hosts, Baud : Bauds, Mode : Modes] :
        cs.Mode \notin ValidModes => (cs.Host = "hostA" /\ cs.Baud = 9600)}

Goroutines == 1..NumGoroutines
Initializers == 1..NumInitializers
\* Outcome of Packager.Send: the response data or an error (invalid request,
\* transport read or write error or timeout, framing or checksum error,
\* response validation error, device exception).
SendResults == {"data", "error"}

VARIABLES
    \* ---- callers (application goroutines) ----
    upc,        \* position of each caller
    ucs,        \* ConnectionSettings of the caller's SetupClient call
    uh,         \* handle the caller holds (0: none)
    uerr,       \* error returned by the caller's last call
    ugot,       \* query whose reply the caller's last Send returned (0: none)
    acquires,   \* number of SetupClient calls issued so far
    \* ---- clientManager ----
    clients,    \* cm.clients: Host -> client id (0: no entry)
    rpc,        \* position of requestListener / handleClientRequest
    rreq,       \* caller whose clientRequest is being handled
    rcl,        \* cl of handleClientRequest
    sresp,      \* clientRequest.sendResponse goroutines, per caller
    \* ---- client objects ----
    nclients,   \* number of client objects created
    csettings,  \* client.ConnectionSettings
    qq,         \* client.qq: "nil", "open"
    wg,         \* client.wg counter
    mu,         \* client.mu: "free", "reg", "mon"
    sig,        \* goroutines started to send on client.newQQSignal
    wpc,        \* position of queryListener
    inSend,     \* queries inside Packager.Send
    transport,  \* c.Packager: "none" (nil), "open", "closed"
    mpc,        \* position of queryQueueChannelMonitor
    \* ---- handles ----
    nhandles,   \* number of ClientHandles created
    hcl,        \* client the handle's forwarder forwards to
    hstate,     \* "none", "open", "closed" (queryQueue closed and nil)
    fpc,        \* position of the handle's forwarding goroutine
    \* ---- replies ----
    replies,    \* query.sendResponse goroutines blocked at their send
    delivered,  \* per handle, replies received for its current query
    panicked,   \* a goroutine panicked: the process is gone
    \* ---- one ClientHandle shared by several goroutines ----
    gpc,        \* position of each goroutine inside Send or Close
    gop,        \* the call the goroutine made last: "none", "Send", "Close"
    gres,       \* what that call returned
    gqry,       \* query the goroutine's Send submitted (0: none)
    ggot,       \* query whose reply the goroutine's Send returned (0: none)
    ncalls,     \* number of calls each goroutine has made on the handle
    queryQueue, \* the field ch.queryQueue: "chan" or "nil"
    queryQueueCh, \* the channel made for ch.queryQueue: "open", "closed"
    responseCh, \* the channel ch.response: "open", "closed"
    fwd,        \* position of the handle's forwarding goroutine
    fwdq,       \* query the forwarder holds
    lst,        \* position of the client's queryListener
    lstq,       \* query inside Packager.Send
    pending,    \* query.sendResponse goroutines at their send
    nqueries,   \* queries received from ch.queryQueue; they are numbered
                \* in the order of their submission
    executed,   \* the queries Packager.Send has finished, in order
    answered,   \* the queries whose reply a Send returned, in order
    wgDone,     \* number of c.wg.Done() calls of the forwarder
    hpanic,     \* the panic that ended the process ("none": none)
    \* ---- choice of the mode of operation ----
    ipc,        \* position of each goroutine in GetClientManager / NewClient
    ires,       \* what the goroutine's last call returned
    icalls,     \* number of GetClientManager and NewClient calls made
    clntMngr,   \* the atomic.Value clntMngr: "empty" or "stored"
    unmanagedClients,   \* the flag unmanagedClients
    managerReturned,    \* a GetClientManager call has returned the manager
    clientReturned,     \* a NewClient call has returned a Client
    \* ---- a Query and the codec calls made on it ----
    qpc,        \* "none", "built", "validated", "framed"
    qry,        \* the Query
    qvalid,     \* what q.IsValid() returned
    qdata,      \* what q.data() returned
    qvia,       \* how the Query was built
    qin,        \* the Values the Query was built with
    \* ---- a Packager and the Sends made on it ----
    ppc,        \* "none", "idle", "reading" (Send is in Read), "returned",
                \* "panic"
    pmode,      \* the Mode of the packager
    transactionID,  \* TCPPackager.transactionID
    pq,         \* the Query of the Send
    written,    \* the bytes the Send handed to Write
    nwrites,    \* number of Write calls on the transport
    nreads,     \* number of Read calls on the transport
    prsp,       \* the response the device sent and how it was wrapped
    pres,       \* what Send returned
    nsends,     \* number of Send calls
    inbuf,      \* bytes that reached the transport after their Read gave up
    \* ---- one Client made by NewClient, shared by several goroutines ----
    opc,        \* position of each goroutine inside NewClientHandle
    oheld,      \* the goroutine holds an open ClientHandle
    ores,       \* what the goroutine's last NewClientHandle returned
    opens,      \* number of NewClientHandle calls made
    kqq,        \* the field c.qq: 0 (nil) or the number of the channel
    kchans,     \* number of channels made for c.qq
    kworkers,   \* channels a queryListener is ranging over
    ktransports, \* transports opened and not closed
    kwg,        \* the counter of c.wg
    ksig,       \* goroutines started to send on c.newQQSignal
    kmon,       \* position of each queryQueueChannelMonitor started
    kpanic      \* a goroutine panicked: the process is gone

cvars == <<upc, ucs, uh, uerr, ugot, acquires>>
rvars == <<clients, rpc, rreq, rcl, sresp>>
lvars == <<nclients, csettings, qq, wg, mu, sig, wpc, inSend, transport, mpc>>
hvars == <<nhandles, hcl, hstate, fpc>>
pvars == <<replies, delivered, panicked>>
\* The registry and its clients.
mainvars == <<cvars, rvars, lvars, hvars, pvars>>
\* The shared ClientHandle.
shvars == <<gpc, gop, gres, gqry, ggot, ncalls, queryQueue, queryQueueCh,
            responseCh, fwd, fwdq, lst, lstq, pending, nqueries, executed,
            answered, wgDone, hpanic>>
\* The mode of operation.
mdvars == <<ipc, ires, icalls, clntMngr, unmanagedClients, managerReturned,
            clientReturned>>
\* The request codec.
qvars == <<qpc, qry, qvalid, qdata, qvia, qin>>
\* The packager.
pkvars == <<ppc, pmode, transactionID, pq, written, nwrites, nreads, prsp,
            pres, nsends, inbuf>>
\* The Client of NewClient.
umvars == <<opc, oheld, ores, opens, kqq, kchans, kworkers, ktransports,
            kwg, ksig, kmon, kpanic>>
vars == <<mainvars, shvars, mdvars, qvars, pkvars, umvars>>

NoResp == [set |-> FALSE, h |-> 0, err |-> "none"]
NoSettings == [Host |-> "", Baud |-> 0, Mode |-> 0]

Init ==
    /\ upc = [u \in Callers |-> "idle"]
    /\ ucs = [u \in Callers |-> NoSettings]
    /\ uh = [u \in Callers |-> 0]
    /\ uerr = [u \in Callers |-> "none"]
    /\ ugot = [u \in Callers |-> 0]
    /\ acquires = 0
    /\ clients = [h \in Hosts |-> 0]
    /\ rpc = "select"
    /\ rreq = 0
    /\ rcl = 0
    /\ sresp = [u \in Callers |-> NoResp]
    /\ nclients = 0
    /\ csettings = [c \in ClientIds |-> NoSettings]
    /\ qq = [c \in ClientIds |-> "nil"]
    /\ wg = [c \in ClientIds |-> 0]
    /\ mu = [c \in ClientIds |-> "free"]
    /\ sig = [c \in ClientIds |-> 0]
    /\ wpc = [c \in ClientIds |-> "none"]
    /\ inSend = [c \in ClientIds |-> {}]
    /\ transport = [c \in ClientIds |-> "none"]
    /\ mpc = [c \in ClientIds |-> "none"]
    /\ nhandles = 0
    /\ hcl = [h \in HandleIds |-> 0]
    /\ hstate = [h \in HandleIds |-> "none"]
    /\ fpc = [h \in HandleIds |-> "none"]
    /\ replies = {}
    /\ delivered = [h \in HandleIds |-> 0]
    /\ panicked = FALSE
    \* a ClientHandle as NewClientHandle returns it, on a running client
    /\ gpc = [g \in Goroutines |-> "idle"]
    /\ gop = [g \in Goroutines |-> "none"]
    /\ gres = [g \in Goroutines |-> "none"]
    /\ gqry = [g \in Goroutines |-> 0]
    /\ ggot = [g \in Goroutines |-> 0]
    /\ ncalls = [g \in Goroutines |-> 0]
    /\ queryQueue = "chan"
    /\ queryQueueCh = "open"
    /\ responseCh = "open"
    /\ fwd = "range"
    /\ fwdq = 0
    /\ lst = "idle"
    /\ lstq = 0
    /\ pending = {}
    /\ nqueries = 0
    /\ executed = <<>>
    /\ answered = <<>>
    /\ wgDone = 0
    /\ hpanic = "none"
    \* process start: neither GetClientManager nor NewClient has been called
    /\ ipc = [i \in Initializers |-> "idle"]
    /\ ires = [i \in Initializers |-> "none"]
    /\ icalls = 0
    /\ clntMngr = "empty"
    /\ unmanagedClients = 0
    /\ managerReturned = FALSE
    /\ clientReturned = FALSE
    \* no Query has been built
    /\ qpc = "none"
    /\ qry = NoQuery
    /\ qvalid = [ok |-> FALSE, err |-> "none"]
    /\ qdata = [data |-> <<>>, err |-> "none"]
    /\ qvia = "none"
    /\ qin = <<>>
    \* no packager has been made
    /\ ppc = "none"
    /\ pmode = ModeTCP
    /\ transactionID = 0
    /\ pq = NoQuery
    /\ written = <<>>
    /\ nwrites = 0
    /\ nreads = 0
    /\ prsp = [pdu |-> <<>>, wrap |-> "none"]
    /\ pres = [data |-> <<>>, err |-> "none"]
    /\ nsends = 0
    /\ inbuf = <<>>
    \* NewClient has returned a Client that is not running
    /\ opc = [g \in Openers |-> "idle"]
    /\ oheld = [g \in Openers |-> FALSE]
    /\ ores = [g \in Openers |-> "none"]
    /\ opens = 0
    /\ kqq = 0
    /\ kchans = 0
    /\ kworkers = {}
    /\ ktransports = 0
    /\ kwg = 0
    /\ ksig = 0
    /\ kmon = [m \in MonitorIds |-> "none"]
    /\ kpanic = FALSE

\* A panic (a send on a closed channel) ends the process: no goroutine takes
\* a step after it.
Running == ~panicked

\* ---------------------------------------------------------------------
\* ClientManager.go
\* ---------------------------------------------------------------------

\* Variant of the comparison that looks at the Host only.
SettingsDifferHostOnly(c, cs) == csettings[c].Host # cs.Host

\* cl.ConnectionSettings != clReq.ConnectionSettings compares every field.
SettingsDiffer(c, cs) == csettings[c] # cs

\* Variant of the lookup that never finds the entry.
LookupNeverOk(host) == FALSE

\* cl, ok := cm.clients[clReq.Host]
LookupOk(host) == clients[host] # 0

\* The part of NewClientHandle that builds the ClientHandle and starts its
\* forwarding goroutine.
NewHandle(c) ==
    LET h == nhandles + 1 IN
    /\ nhandles' = h
    /\ hcl' = [hcl EXCEPT ![h] = c]
    /\ hstate' = [hstate EXCEPT ![h] = "open"]
    /\ fpc' = [fpc EXCEPT ![h] = "range"]

\* Variant of the delete that leaves the entry in the map.
KeepEntry(host) == clients

\* delete(cm.clients, *delReq)
DeleteEntry(host) == [clients EXCEPT ![host] = 0]

\* requestListener: case delReq := <-cm.deleteClient
requestListenerDelete(d) ==
    /\ Running
    /\ rpc = "select"
    /\ mpc[d] = "sendDelete"
    /\ clients' = DeleteEntry(csettings[d].Host)
    /\ mpc' = [mpc EXCEPT ![d] = "close"]
    /\ UNCHANGED <<cvars, rpc, rreq, rcl, sresp, nclients, csettings, qq, wg,
                   mu, sig, wpc, inSend, transport, hvars, pvars>>
    /\ UNCHANGED <<shvars, mdvars, qvars, pkvars, umvars>>

\* SetupClient: cm.newClient <- req meets requestListener's
\* case conReq := <-cm.newClient; handleClientRequest when the Host has an
\* entry, up to its blocking cl.mu.Lock().
requestListenerExisting(u, cs) ==
    /\ Running
    /\ rpc = "select"
    /\ upc[u] = "idle"
    /\ acquires < MaxAcquires
    /\ LookupOk(cs.Host)
    /\ acquires' = acquires + 1
    /\ ucs' = [ucs EXCEPT ![u] = cs]
    /\ uerr' = [uerr EXCEPT ![u] = "none"]
    /\ upc' = [upc EXCEPT ![u] = "waitSetup"]
    /\ wg' = [wg EXCEPT ![clients[cs.Host]] = @ + 1]
    /\ rcl' = clients[cs.Host]
    /\ rreq' = u
    /\ rpc' = "lock"
    /\ UNCHANGED <<uh, ugot, clients, sresp, nclients, csettings, qq, mu, sig,
                   wpc, inSend, transport, mpc, hvars, pvars>>
    /\ UNCHANGED <<shvars, mdvars, qvars, pkvars, umvars>>

\* start(): switch c.Mode with the cases ModeTCP, ModeRTU, ModeASCII, each
\* calling its New*Packager; the value is c.Packager after the switch, or
\* "error" when start() returns the constructor's error.
StartPackager(cs, opened) ==
    IF cs.Mode \in ValidModes
    THEN IF opened THEN "open" ELSE "error"
    ELSE "none"

\* Variant that stores the entry whatever NewClientHandle returned.
RegisterAlways(host, c, err) == [clients EXCEPT ![host] = c]

\* handleClientRequest, new client: if err != nil { go sendResponse(nil,
\* err); return }; cm.clients[cl.Host] = cl.
RegisterClient(host, c, err) ==
    IF err # "none" THEN clients ELSE [clients EXCEPT ![host] = c]

\* SetupClient: cm.newClient <- req meets requestListener's
\* case conReq := <-cm.newClient; handleClientRequest when the Host has no
\* entry: newClient, NewClientHandle -> start.
\* opened is the outcome of New*Packager (opening the transport).
\* The switch of start() has no default case: with a Mode that is none of
\* the three, c.Packager stays nil and start() goes on as after a success.
requestListenerNew(u, cs, opened) ==
    /\ Running
    /\ rpc = "select"
    /\ upc[u] = "idle"
    /\ acquires < MaxAcquires
    /\ ~LookupOk(cs.Host)
    /\ acquires' = acquires + 1
    /\ ucs' = [ucs EXCEPT ![u] = cs]
    /\ uerr' = [uerr EXCEPT ![u] = "none"]
    /\ upc' = [upc EXCEPT ![u] = "waitSetup"]
    /\ IF StartPackager(cs, opened) # "error"
       THEN LET c == nclients + 1 IN
            /\ nclients' = c
            /\ csettings' = [csettings EXCEPT ![c] = cs]
            /\ transport' = [transport EXCEPT ![c] = StartPackager(cs, opened)]
            /\ qq' = [qq EXCEPT ![c] = "open"]
            /\ wpc' = [wpc EXCEPT ![c] = "idle"]
            /\ wg' = [wg EXCEPT ![c] = @ + 1]
            /\ sig' = [sig EXCEPT ![c] = @ + 1]
            /\ NewHandle(c)
            /\ mpc' = [mpc EXCEPT ![c] = "wait"]
            /\ clients' = RegisterClient(cs.Host, c, "none")
            /\ sresp' = [sresp EXCEPT ![u] =
                           [set |-> TRUE, h |-> nhandles + 1, err |-> "none"]]
       ELSE /\ sresp' = [sresp EXCEPT ![u] =
                           [set |-> TRUE, h |-> 0, err |-> "open"]]
            /\ clients' = RegisterClient(cs.Host, nclients + 1, "open")
            /\ UNCHANGED <<nclients, csettings, transport, qq, wpc, wg, sig,
                           mpc, hvars>>
    /\ UNCHANGED <<uh, ugot, rpc, rreq, rcl, mu, inSend, pvars>>
    /\ UNCHANGED <<shvars, mdvars, qvars, pkvars, umvars>>

\* handleClientRequest from cl.mu.Lock() to the settings comparison; on a
\* mismatch up to its return (go sendResponse, deferred Unlock and
\* wg.Add(-1)).
handleClientRequestLock ==
    /\ Running
    /\ rpc = "lock"
    /\ mu[rcl] = "free"
    /\ IF SettingsDiffer(rcl, ucs[rreq])
       THEN /\ sresp' = [sresp EXCEPT ![rreq] =
                           [set |-> TRUE, h |-> 0, err |-> "mismatch"]]
            /\ wg' = [wg EXCEPT ![rcl] = @ - 1]
            /\ rpc' = "select"
            /\ rreq' = 0
            /\ rcl' = 0
            /\ mu' = mu
       ELSE /\ mu' = [mu EXCEPT ![rcl] = "reg"]
            /\ rpc' = "inner"
            /\ UNCHANGED <<sresp, wg, rreq, rcl>>
    /\ UNCHANGED <<cvars, clients, nclients, csettings, qq, sig, wpc, inSend,
                   transport, mpc, hvars, pvars>>
    /\ UNCHANGED <<shvars, mdvars, qvars, pkvars, umvars>>

\* The delete requests the inner select of handleClientRequest receives
\* before it reaches its default case: those of the monitors blocked at
\* their send on cm.deleteClient.
Drained == {d \in ClientIds : mpc[d] = "sendDelete"}

\* handleClientRequest holding cl.mu: the loop over the inner select
\* (delete(cm.clients, *delReq) for every request of another Host; a request
\* of cl's own Host leaves the entry in place), then NewClientHandle on cl
\* (c.start() if cl is not running) and the return (go sendResponse,
\* deferred Unlock and wg.Add(-1)).
handleClientRequestAttach ==
    /\ Running
    /\ rpc = "inner"
    /\ clients' = [h \in Hosts |->
                     IF \E d \in Drained : /\ csettings[d].Host = h
                                           /\ h # csettings[rcl].Host
                     THEN 0 ELSE clients[h]]
    /\ mpc' = [d \in ClientIds |->
                 IF d \in Drained THEN "close"
                 ELSE IF d = rcl /\ qq[rcl] = "nil" THEN "wait" ELSE mpc[d]]
    /\ IF qq[rcl] = "nil"
       THEN \* c.start()
            /\ transport' = [transport EXCEPT ![rcl] =
                                StartPackager(csettings[rcl], TRUE)]
            /\ qq' = [qq EXCEPT ![rcl] = "open"]
            /\ wpc' = [wpc EXCEPT ![rcl] = "idle"]
       ELSE UNCHANGED <<transport, qq, wpc>>
    \* c.wg.Add(1) of NewClientHandle and the deferred cl.wg.Add(-1)
    /\ wg' = [wg EXCEPT ![rcl] = @ + 1 - 1]
    /\ sig' = [sig EXCEPT ![rcl] = @ + 1]
    /\ NewHandle(rcl)
    /\ sresp' = [sresp EXCEPT ![rreq] =
                   [set |-> TRUE, h |-> nhandles + 1, err |-> "none"]]
    /\ mu' = [mu EXCEPT ![rcl] = "free"]
    /\ rpc' = "select"
    /\ rreq' = 0
    /\ rcl' = 0
    /\ UNCHANGED <<cvars, nclients, csettings, inSend, pvars>>
    /\ UNCHANGED <<shvars, mdvars, qvars, pkvars, umvars>>

\* SetupClient: res := <-req.response, fed by clientRequest.sendResponse.
SetupClientReturn(u) ==
    /\ Running
    /\ upc[u] = "waitSetup"
    /\ sresp[u].set
    /\ sresp' = [sresp EXCEPT ![u] = NoResp]
    /\ uerr' = [uerr EXCEPT ![u] = sresp[u].err]
    /\ uh' = [uh EXCEPT ![u] = sresp[u].h]
    /\ upc' = [upc EXCEPT ![u] = IF sresp[u].h = 0 THEN "idle" ELSE "ready"]
    /\ ucs' = [ucs EXCEPT ![u] = NoSettings]
    /\ UNCHANGED <<ugot, acquires, clients, rpc, rreq, rcl, lvars, hvars,
                   pvars>>
    /\ UNCHANGED <<shvars, mdvars, qvars, pkvars, umvars>>

\* ---------------------------------------------------------------------
\* Client.go
\* ---------------------------------------------------------------------

\* ch.queryQueue != nil
HandleOpen(h) == hstate[h] = "open"

\* ClientHandle.Send up to its blocking send on ch.queryQueue.
ClientHandleSend(u) ==
    /\ Running
    /\ upc[u] = "ready"
    /\ HandleOpen(uh[u])
    /\ upc' = [upc EXCEPT ![u] = "sendq"]
    /\ ugot' = [ugot EXCEPT ![u] = 0]
    /\ uerr' = [uerr EXCEPT ![u] = "none"]
    /\ delivered' = [delivered EXCEPT ![uh[u]] = 0]
    /\ UNCHANGED <<ucs, uh, acquires, rvars, lvars, hvars, replies, panicked>>
    /\ UNCHANGED <<shvars, mdvars, qvars, pkvars, umvars>>

\* ClientHandle.Close on an open handle.
ClientHandleClose(u) ==
    /\ Running
    /\ upc[u] = "ready"
    /\ HandleOpen(uh[u])
    /\ hstate' = [hstate EXCEPT ![uh[u]] = "closed"]
    /\ upc' = [upc EXCEPT ![u] = "idle"]
    /\ uh' = [uh EXCEPT ![u] = 0]
    /\ uerr' = [uerr EXCEPT ![u] = "none"]
    /\ ugot' = [ugot EXCEPT ![u] = 0]
    /\ delivered' = [delivered EXCEPT ![uh[u]] = 0]
    /\ UNCHANGED <<ucs, acquires, rvars, lvars, nhandles, hcl, fpc, replies,
                   panicked>>
    /\ UNCHANGED <<shvars, mdvars, qvars, pkvars, umvars>>

\* Forwarder: q := range qq receives the caller's query, then evaluates
\* c.qq for its send c.qq <- q.  c.qq is written by the monitor without any
\* synchronisation with the forwarder: after the monitor closed the channel
\* and set c.qq to nil, the forwarder reads either nil (the send blocks for
\* ever) or, stale, the closed channel (the send panics).
forwarderReceive(h, u, stale) ==
    /\ Running
    /\ fpc[h] = "range"
    /\ uh[u] = h
    /\ upc[u] = "sendq"
    /\ upc' = [upc EXCEPT ![u] = "waitResp"]
    /\ \/ /\ qq[hcl[h]] = "open"
          /\ ~stale
          /\ fpc' = [fpc EXCEPT ![h] = "parked"]
          /\ panicked' = panicked
       \/ /\ qq[hcl[h]] = "nil"
          /\ ~stale
          /\ fpc' = [fpc EXCEPT ![h] = "stuck"]
          /\ panicked' = panicked
       \/ /\ qq[hcl[h]] = "nil"
          /\ stale
          /\ fpc' = [fpc EXCEPT ![h] = "panic"]
          /\ panicked' = TRUE
    /\ UNCHANGED <<ucs, uh, uerr, ugot, acquires, rvars, lvars, nhandles, hcl,
                   hstate, replies, delivered>>
    /\ UNCHANGED <<shvars, mdvars, qvars, pkvars, umvars>>

\* Forwarder: range qq ends because the handle was closed.
forwarderClosed(h) ==
    /\ Running
    /\ fpc[h] = "range"
    /\ hstate[h] = "closed"
    /\ fpc' = [fpc EXCEPT ![h] = "signal"]
    /\ UNCHANGED <<cvars, rvars, lvars, nhandles, hcl, hstate, pvars>>
    /\ UNCHANGED <<shvars, mdvars, qvars, pkvars, umvars>>

\* Forwarder: <-c.newQQSignal, then c.wg.Done().
forwarderDone(h) ==
    /\ Running
    /\ fpc[h] = "signal"
    /\ sig[hcl[h]] > 0
    /\ sig' = [sig EXCEPT ![hcl[h]] = @ - 1]
    /\ wg' = [wg EXCEPT ![hcl[h]] = @ - 1]
    /\ fpc' = [fpc EXCEPT ![h] = "done"]
    /\ UNCHANGED <<cvars, rvars, nclients, csettings, qq, mu, wpc, inSend,
                   transport, mpc, nhandles, hcl, hstate, pvars>>
    /\ UNCHANGED <<shvars, mdvars, qvars, pkvars, umvars>>

\* Variant in which c.Send runs inside the started goroutine, so that the
\* listener is back at range c.qq at once.
ListenerBackAtRange == "idle"

\* go qry.sendResponse(c.Send(qry.Query)): the argument c.Send(...) is
\* evaluated by queryListener itself, which is busy until Send returns.
ListenerWhileSending == "serving"

\* queryListener: qry := range c.qq receives from a forwarder, Send begins.
\* A query is named by the handle that submitted it.  With c.Packager nil
\* the call c.Send panics (nil pointer dereference).
queryListenerReceive(c, h) ==
    /\ Running
    /\ wpc[c] = "idle"
    /\ qq[c] = "open"
    /\ fpc[h] = "parked"
    /\ hcl[h] = c
    /\ inSend' = [inSend EXCEPT ![c] = @ \cup {h}]
    /\ wpc' = [wpc EXCEPT ![c] = ListenerWhileSending]
    /\ fpc' = [fpc EXCEPT ![h] = "range"]
    /\ panicked' = (panicked \/ transport[c] = "none")
    /\ UNCHANGED <<cvars, rvars, nclients, csettings, qq, wg, mu, sig,
                   transport, mpc, nhandles, hcl, hstate, replies, delivered>>
    /\ UNCHANGED <<shvars, mdvars, qvars, pkvars, umvars>>

\* Variant with one response channel per client, that of its first handle.
ResponseChannelOfClient(q) ==
    CHOOSE h \in HandleIds :
        /\ hcl[h] = hcl[q]
        /\ \A g \in HandleIds : hcl[g] = hcl[q] => h <= g

\* query.response: the response channel of the submitting handle.
ResponseChannel(q) == q

\* queryListener: c.Send returns (payload or error), the sendResponse
\* goroutine is started and the listener is back at range c.qq.
queryListenerSent(c, q) ==
    /\ Running
    /\ q \in inSend[c]
    /\ inSend' = [inSend EXCEPT ![c] = @ \ {q}]
    /\ wpc' = [wpc EXCEPT ![c] = "idle"]
    /\ replies' = replies \cup {[q |-> q, to |-> ResponseChannel(q)]}
    /\ UNCHANGED <<cvars, rvars, nclients, csettings, qq, wg, mu, sig,
                   transport, mpc, hvars, delivered, panicked>>
    /\ UNCHANGED <<shvars, mdvars, qvars, pkvars, umvars>>

\* queryListener: range c.qq ends on the closed channel; the deferred
\* c.Close() closes the transport.  With c.Packager nil the call c.Close()
\* panics (nil pointer dereference).
queryListenerExit(c) ==
    /\ Running
    /\ wpc[c] = "idle"
    /\ qq[c] = "nil"
    /\ wpc' = [wpc EXCEPT ![c] = "exited"]
    /\ IF transport[c] = "none"
       THEN panicked' = TRUE /\ transport' = transport
       ELSE /\ transport' = [transport EXCEPT ![c] = "closed"]
            /\ panicked' = panicked
    /\ UNCHANGED <<cvars, rvars, nclients, csettings, qq, wg, mu, sig, inSend,
                   mpc, hvars, replies, delivered>>
    /\ UNCHANGED <<shvars, mdvars, qvars, pkvars, umvars>>

\* query.sendResponse delivers to the caller blocked in res := <-ch.response.
sendResponse(r, u) ==
    /\ Running
    /\ r \in replies
    /\ uh[u] = r.to
    /\ upc[u] = "waitResp"
    /\ replies' = replies \ {r}
    /\ delivered' = [delivered EXCEPT ![r.q] = @ + 1]
    /\ ugot' = [ugot EXCEPT ![u] = r.q]
    /\ upc' = [upc EXCEPT ![u] = "ready"]
    /\ UNCHANGED <<ucs, uh, uerr, acquires, rvars, lvars, hvars, panicked>>
    /\ UNCHANGED <<shvars, mdvars, qvars, pkvars, umvars>>

\* queryQueueChannelMonitor: c.wg.Wait() returns.
monitorWait(c) ==
    /\ Running
    /\ mpc[c] = "wait"
    /\ wg[c] = 0
    /\ mpc' = [mpc EXCEPT ![c] = "lock"]
    /\ UNCHANGED <<cvars, rvars, nclients, csettings, qq, wg, mu, sig, wpc,
                   inSend, transport, hvars, pvars>>
    /\ UNCHANGED <<shvars, mdvars, qvars, pkvars, umvars>>

\* queryQueueChannelMonitor: c.mu.Lock() and the select on newQQSignal.
\* The select receives only from a goroutine that is already blocked at its
\* send c.newQQSignal <- true; a goroutine that was started (go func) but has
\* not run that far leaves the select to its default case.  atSend says
\* whether one of the started goroutines has reached its send.  The
\* goroutine relaunched by the monitor replaces the one it received from.
monitorCheck(c, atSend) ==
    /\ Running
    /\ mpc[c] = "lock"
    /\ mu[c] = "free"
    /\ atSend => sig[c] > 0
    /\ IF atSend
       THEN /\ mpc' = [mpc EXCEPT ![c] = "wait"]
            /\ mu' = mu
       ELSE /\ mu' = [mu EXCEPT ![c] = "mon"]
            /\ mpc' = [mpc EXCEPT ![c] = "sendDelete"]
    /\ UNCHANGED <<cvars, rvars, nclients, csettings, qq, wg, sig, wpc,
                   inSend, transport, hvars, pvars>>
    /\ UNCHANGED <<shvars, mdvars, qvars, pkvars, umvars>>

\* queryQueueChannelMonitor after its delete request was received:
\* close(c.qq); c.qq = nil; c.mu.Unlock().  A forwarder blocked in its send
\* on c.qq panics when the channel is closed.
monitorClose(c) ==
    /\ Running
    /\ mpc[c] = "close"
    /\ qq' = [qq EXCEPT ![c] = "nil"]
    /\ mu' = [mu EXCEPT ![c] = "free"]
    /\ mpc' = [mpc EXCEPT ![c] = "done"]
    /\ fpc' = [h \in HandleIds |->
                 IF hcl[h] = c /\ fpc[h] = "parked" THEN "panic" ELSE fpc[h]]
    /\ panicked' = (panicked \/ \E h \in HandleIds :
                                    hcl[h] = c /\ fpc[h] = "parked")
    /\ UNCHANGED <<cvars, rvars, nclients, csettings, wg, sig, wpc, inSend,
                   transport, nhandles, hcl, hstate, replies, delivered>>
    /\ UNCHANGED <<shvars, mdvars, qvars, pkvars, umvars>>

\* ---------------------------------------------------------------------
\* Steps taken by the library's goroutines once a call has been made.
System ==
    \/ \E d \in ClientIds : requestListenerDelete(d)
    \/ handleClientRequestLock
    \/ handleClientRequestAttach
    \/ \E u \in Callers : SetupClientReturn(u)
    \/ \E h \in HandleIds, u \in Callers, stale \in BOOLEAN :
           forwarderReceive(h, u, stale)
    \/ \E h \in HandleIds : forwarderClosed(h)
    \/ \E h \in HandleIds : forwarderDone(h)
    \/ \E c \in ClientIds, h \in HandleIds : queryListenerReceive(c, h)
    \/ \E c \in ClientIds, q \in HandleIds : queryListenerSent(c, q)
    \/ \E c \in ClientIds : queryListenerExit(c)
    \/ \E r \in replies, u \in Callers : sendResponse(r, u)
    \/ \E c \in ClientIds : monitorWait(c)
    \/ \E c \in ClientIds, atSend \in BOOLEAN : monitorCheck(c, atSend)
    \/ \E c \in ClientIds : monitorClose(c)

\* Calls made by the application.
Calls ==
    \/ \E u \in Callers, cs \in ConnectionSettings :
           requestListenerExisting(u, cs)
    \/ \E u \in Callers, cs \in ConnectionSettings, opened \in BOOLEAN :
           requestListenerNew(u, cs, opened)
    \/ \E u \in Callers : ClientHandleSend(u)
    \/ \E u \in Callers : ClientHandleClose(u)

Next == System \/ Calls

Spec == Init /\ [][Next]_vars

\* Every goroutine that can run eventually runs, a goroutine blocked at a
\* channel operation or at Lock is eventually served when its partner keeps
\* coming back (Go queues blocked senders and lock waiters first-in
\* first-out).  The application is free to make no further call.
FairSpec ==
    /\ Spec
    /\ \A d \in ClientIds : SF_vars(requestListenerDelete(d))
    /\ SF_vars(handleClientRequestLock)
    /\ WF_vars(handleClientRequestAttach)
    /\ \A u \in Callers : WF_vars(SetupClientReturn(u))
    /\ \A h \in HandleIds :
           /\ WF_vars(\E u \in Callers, stale \in BOOLEAN :
                          forwarderReceive(h, u, stale))
           /\ WF_vars(forwarderClosed(h))
           /\ WF_vars(forwarderDone(h))
    /\ \A c \in ClientIds :
           /\ \A h \in HandleIds : SF_vars(queryListenerReceive(c, h))
           /\ \A q \in HandleIds : WF_vars(queryListenerSent(c, q))
           /\ WF_vars(queryListenerExit(c))
           /\ WF_vars(monitorWait(c))
           /\ SF_vars(\E atSend \in BOOLEAN : monitorCheck(c, atSend))
           /\ WF_vars(monitorClose(c))
    /\ \A u \in Callers : WF_vars(\E r \in replies : sendResponse(r, u))

\* ---------------------------------------------------------------------
\* Client.go: one ClientHandle used by several goroutines
\* ---------------------------------------------------------------------
\* The handle's client is running and stays so: the handle's forwarder has
\* not called c.wg.Done() while anything below can happen.  Send and Close
\* take no lock, so every statement of theirs is a step of its own.

\* The number of calls the goroutines of S have made on the handle.
RECURSIVE CallsMade(_)
CallsMade(S) ==
    IF S = {} THEN 0
    ELSE LET g == CHOOSE x \in S : TRUE IN ncalls[g] + CallsMade(S \ {g})

\* No goroutine has panicked.
HandleRunning == hpanic = "none"

\* Variant of the test of Send that looks at ch.response instead.
SendTestsResponse == FALSE

\* Send: ch.queryQueue == nil
SendFindsNil == queryQueue = "nil"

\* Send: the nil test; with the handle closed the handle-closed error is
\* returned at once, otherwise the goroutine goes on to its send
\* ch.queryQueue <- query{Query: q, response: ch.response}.
HandleSendBegin(g) ==
    /\ HandleRunning
    /\ gpc[g] = "idle"
    /\ CallsMade(Goroutines) < MaxCalls
    /\ ncalls' = [ncalls EXCEPT ![g] = @ + 1]
    /\ gop' = [gop EXCEPT ![g] = "Send"]
    /\ gqry' = [gqry EXCEPT ![g] = 0]
    /\ ggot' = [ggot EXCEPT ![g] = 0]
    /\ IF SendFindsNil
       THEN /\ gres' = [gres EXCEPT ![g] = "handle closed"]
            /\ gpc' = gpc
       ELSE /\ gres' = [gres EXCEPT ![g] = "none"]
            /\ gpc' = [gpc EXCEPT ![g] = "send"]
    /\ UNCHANGED <<queryQueue, queryQueueCh, responseCh, fwd, fwdq, lst, lstq,
                   pending, nqueries, executed, answered, wgDone, hpanic>>
    /\ UNCHANGED <<mainvars, mdvars, qvars, pkvars, umvars>>

\* Send: ch.queryQueue <- query{...} meets the forwarder's range qq.
\* The forwarder goes on to its send c.qq <- q.
HandleSendQueue(g) ==
    /\ HandleRunning
    /\ gpc[g] = "send"
    /\ queryQueueCh = "open"
    /\ fwd = "range"
    /\ nqueries' = nqueries + 1
    /\ gqry' = [gqry EXCEPT ![g] = nqueries + 1]
    /\ fwdq' = nqueries + 1
    /\ fwd' = "parked"
    /\ gpc' = [gpc EXCEPT ![g] = "recv"]
    /\ UNCHANGED <<gop, gres, ggot, ncalls, queryQueue, queryQueueCh,
                   responseCh, lst, lstq, pending, executed, answered, wgDone,
                   hpanic>>
    /\ UNCHANGED <<mainvars, mdvars, qvars, pkvars, umvars>>

\* Send: ch.queryQueue <- query{...} after Close has closed the channel: a
\* send on a closed channel panics, whether the goroutine was blocked in
\* the send already or comes to it now.
HandleSendClosed(g) ==
    /\ HandleRunning
    /\ gpc[g] = "send"
    /\ queryQueueCh = "closed"
    /\ hpanic' = "send on closed ch.queryQueue"
    /\ UNCHANGED <<gpc, gop, gres, gqry, ggot, ncalls, queryQueue,
                   queryQueueCh, responseCh, fwd, fwdq, lst, lstq, pending,
                   nqueries, executed, answered, wgDone>>
    /\ UNCHANGED <<mainvars, mdvars, qvars, pkvars, umvars>>

\* Send: ch.queryQueue <- query{...} after Close has set the field to nil:
\* a send on a nil channel blocks for ever.
HandleSendNil(g) ==
    /\ HandleRunning
    /\ gpc[g] = "send"
    /\ queryQueue = "nil"
    /\ gpc' = [gpc EXCEPT ![g] = "blocked"]
    /\ UNCHANGED <<gop, gres, gqry, ggot, ncalls, queryQueue, queryQueueCh,
                   responseCh, fwd, fwdq, lst, lstq, pending, nqueries,
                   executed, answered, wgDone, hpanic>>
    /\ UNCHANGED <<mainvars, mdvars, qvars, pkvars, umvars>>

\* The goroutines a reply can be delivered to.  Every query of the handle
\* carries the one channel ch.response, so any goroutine blocked in
\* res := <-ch.response receives.
Receivers(r) == {g \in Goroutines : gpc[g] = "recv"}

\* Send: res := <-ch.response meets query.sendResponse's
\* q.response <- queryResponse{...}; Send returns res.data, res.err.
HandleSendReturn(g, r) ==
    /\ HandleRunning
    /\ r \in pending
    /\ responseCh = "open"
    /\ g \in Receivers(r)
    /\ pending' = pending \ {r}
    /\ ggot' = [ggot EXCEPT ![g] = r.q]
    /\ gres' = [gres EXCEPT ![g] = r.res]
    /\ gpc' = [gpc EXCEPT ![g] = "idle"]
    /\ answered' = Append(answered, r.q)
    /\ UNCHANGED <<gop, gqry, ncalls, queryQueue, queryQueueCh, responseCh,
                   fwd, fwdq, lst, lstq, nqueries, executed, wgDone, hpanic>>
    /\ UNCHANGED <<mainvars, mdvars, qvars, pkvars, umvars>>

\* Send: res := <-ch.response on the channel Close has closed yields the
\* zero queryResponse; Send returns nil data and a nil error.
HandleSendZero(g) ==
    /\ HandleRunning
    /\ gpc[g] = "recv"
    /\ responseCh = "closed"
    /\ gres' = [gres EXCEPT ![g] = "zero"]
    /\ gpc' = [gpc EXCEPT ![g] = "idle"]
    /\ UNCHANGED <<gop, gqry, ggot, ncalls, queryQueue, queryQueueCh,
                   responseCh, fwd, fwdq, lst, lstq, pending, nqueries,
                   executed, answered, wgDone, hpanic>>
    /\ UNCHANGED <<mainvars, mdvars, qvars, pkvars, umvars>>

\* query.sendResponse: q.response <- queryResponse{...} on the channel
\* Close has closed panics.
sendResponseClosed(r) ==
    /\ HandleRunning
    /\ r \in pending
    /\ responseCh = "closed"
    /\ hpanic' = "send on closed ch.response"
    /\ UNCHANGED <<gpc, gop, gres, gqry, ggot, ncalls, queryQueue,
                   queryQueueCh, responseCh, fwd, fwdq, lst, lstq, pending,
                   nqueries, executed, answered, wgDone>>
    /\ UNCHANGED <<mainvars, mdvars, qvars, pkvars, umvars>>

\* Variant of the test of Close that never finds the handle closed.
CloseNeverFindsNil == FALSE

\* Close: ch.queryQueue == nil
CloseFindsNil == queryQueue = "nil"

\* Close: the nil test; with the handle closed the already-closed error is
\* returned at once.
HandleCloseBegin(g) ==
    /\ HandleRunning
    /\ gpc[g] = "idle"
    /\ CallsMade(Goroutines) < MaxCalls
    /\ ncalls' = [ncalls EXCEPT ![g] = @ + 1]
    /\ gop' = [gop EXCEPT ![g] = "Close"]
    /\ gqry' = [gqry EXCEPT ![g] = 0]
    /\ ggot' = [ggot EXCEPT ![g] = 0]
    /\ IF CloseFindsNil
       THEN /\ gres' = [gres EXCEPT ![g] = "already closed"]
            /\ gpc' = gpc
       ELSE /\ gres' = [gres EXCEPT ![g] = "none"]
            /\ gpc' = [gpc EXCEPT ![g] = "closeQueue"]
    /\ UNCHANGED <<queryQueue, queryQueueCh, responseCh, fwd, fwdq, lst, lstq,
                   pending, nqueries, executed, answered, wgDone, hpanic>>
    /\ UNCHANGED <<mainvars, mdvars, qvars, pkvars, umvars>>

\* Close: close(ch.queryQueue).  Closing a closed channel, or the nil the
\* field holds after another Close, panics.
HandleCloseQueryQueue(g) ==
    /\ HandleRunning
    /\ gpc[g] = "closeQueue"
    /\ IF queryQueueCh = "closed"
       THEN /\ hpanic' = "close of closed ch.queryQueue"
            /\ UNCHANGED <<gpc, queryQueueCh>>
       ELSE /\ queryQueueCh' = "closed"
            /\ gpc' = [gpc EXCEPT ![g] = "closeResponse"]
            /\ hpanic' = hpanic
    /\ UNCHANGED <<gop, gres, gqry, ggot, ncalls, queryQueue, responseCh, fwd,
                   fwdq, lst, lstq, pending, nqueries, executed, answered,
                   wgDone>>
    /\ UNCHANGED <<mainvars, mdvars, qvars, pkvars, umvars>>

\* Close: close(ch.response).
HandleCloseResponse(g) ==
    /\ HandleRunning
    /\ gpc[g] = "closeResponse"
    /\ IF responseCh = "closed"
       THEN /\ hpanic' = "close of closed ch.response"
            /\ UNCHANGED <<gpc, responseCh>>
       ELSE /\ responseCh' = "closed"
            /\ gpc' = [gpc EXCEPT ![g] = "setNil"]
            /\ hpanic' = hpanic
    /\ UNCHANGED <<gop, gres, gqry, ggot, ncalls, queryQueue, queryQueueCh,
                   fwd, fwdq, lst, lstq, pending, nqueries, executed, answered,
                   wgDone>>
    /\ UNCHANGED <<mainvars, mdvars, qvars, pkvars, umvars>>

\* Close: ch.queryQueue = nil; return nil.
HandleCloseReturn(g) ==
    /\ HandleRunning
    /\ gpc[g] = "setNil"
    /\ queryQueue' = "nil"
    /\ gres' = [gres EXCEPT ![g] = "closed"]
    /\ gpc' = [gpc EXCEPT ![g] = "idle"]
    /\ UNCHANGED <<gop, gqry, ggot, ncalls, queryQueueCh, responseCh, fwd,
                   fwdq, lst, lstq, pending, nqueries, executed, answered,
                   wgDone, hpanic>>
    /\ UNCHANGED <<mainvars, mdvars, qvars, pkvars, umvars>>

\* Forwarder: c.qq <- q meets queryListener's range c.qq; Packager.Send
\* begins and the forwarder is back at range qq.
HandleForward ==
    /\ HandleRunning
    /\ fwd = "parked"
    /\ lst = "idle"
    /\ lst' = "serving"
    /\ lstq' = fwdq
    /\ fwd' = "range"
    /\ fwdq' = 0
    /\ UNCHANGED <<gpc, gop, gres, gqry, ggot, ncalls, queryQueue,
                   queryQueueCh, responseCh, pending, nqueries, executed,
                   answered, wgDone, hpanic>>
    /\ UNCHANGED <<mainvars, mdvars, qvars, pkvars, umvars>>

\* Forwarder: range qq ends on the closed channel; <-c.newQQSignal and
\* c.wg.Done().
HandleForwarderDone ==
    /\ HandleRunning
    /\ fwd = "range"
    /\ queryQueueCh = "closed"
    /\ fwd' = "done"
    /\ wgDone' = wgDone + 1
    /\ UNCHANGED <<gpc, gop, gres, gqry, ggot, ncalls, queryQueue,
                   queryQueueCh, responseCh, fwdq, lst, lstq, pending,
                   nqueries, executed, answered, hpanic>>
    /\ UNCHANGED <<mainvars, mdvars, qvars, pkvars, umvars>>

\* Variant of the loop that returns when Packager.Send returned an error.
ListenerStopsOnError(res) == IF res = "error" THEN "exited" ELSE "idle"

\* Variant in which the queryListener sends the reply itself and is held
\* until it is received.
ListenerDelivers(res) == "delivering"

\* queryListener after go qry.sendResponse(c.Send(qry.Query)): whatever
\* Send returned, the loop goes on with range c.qq.
ListenerAfterSend(res) == "idle"

\* queryListener: c.Send(qry.Query) returns res and the sendResponse
\* goroutine is started with it.
HandleListenerSent(res) ==
    /\ HandleRunning
    /\ lst = "serving"
    /\ executed' = Append(executed, [q |-> lstq, res |-> res])
    /\ pending' = pending \cup {[q |-> lstq, res |-> res]}
    /\ lst' = ListenerAfterSend(res)
    /\ lstq' = 0
    /\ UNCHANGED <<gpc, gop, gres, gqry, ggot, ncalls, queryQueue,
                   queryQueueCh, responseCh, fwd, fwdq, nqueries, answered,
                   wgDone, hpanic>>
    /\ UNCHANGED <<mainvars, mdvars, qvars, pkvars, umvars>>

HandleNext ==
    \/ \E g \in Goroutines : HandleSendBegin(g)
    \/ \E g \in Goroutines : HandleSendQueue(g)
    \/ \E g \in Goroutines : HandleSendClosed(g)
    \/ \E g \in Goroutines : HandleSendNil(g)
    \/ \E g \in Goroutines : \E r \in pending : HandleSendReturn(g, r)
    \/ \E g \in Goroutines : HandleSendZero(g)
    \/ \E r \in pending : sendResponseClosed(r)
    \/ \E g \in Goroutines : HandleCloseBegin(g)
    \/ \E g \in Goroutines : HandleCloseQueryQueue(g)
    \/ \E g \in Goroutines : HandleCloseResponse(g)
    \/ \E g \in Goroutines : HandleCloseReturn(g)
    \/ HandleForward
    \/ HandleForwarderDone
    \/ \E res \in SendResults : HandleListenerSent(res)

HandleSpec == Init /\ [][HandleNext]_vars

\* Every goroutine that can run eventually runs; the application is free
\* to make no further call.
FairHandleSpec ==
    /\ HandleSpec
    /\ \A g \in Goroutines :
           /\ SF_vars(HandleSendQueue(g))
           /\ WF_vars(HandleSendClosed(g) \/ HandleSendNil(g))
           /\ SF_vars(\E r \in pending : HandleSendReturn(g, r))
           /\ WF_vars(HandleSendZero(g))
           /\ WF_vars(HandleCloseQueryQueue(g))
           /\ WF_vars(HandleCloseResponse(g))
           /\ WF_vars(HandleCloseReturn(g))
    /\ WF_vars(HandleForward)
    /\ WF_vars(HandleForwarderDone)
    /\ WF_vars(\E res \in SendResults : HandleListenerSent(res))

\* ---------------------------------------------------------------------
\* ClientManager.go, Client.go: GetClientManager and NewClient
\* ---------------------------------------------------------------------

\* GetClientManager: 0 != atomic.LoadUint32(&unmanagedClients)
UnmanagedSeen == unmanagedClients # 0

\* GetClientManager: the test of unmanagedClients; the error is returned
\* at once, otherwise the goroutine goes on to once.Do.
GetClientManagerTest(i) ==
    /\ ipc[i] = "idle"
    /\ icalls < MaxInitCalls
    /\ icalls' = icalls + 1
    /\ IF UnmanagedSeen
       THEN /\ ires' = [ires EXCEPT ![i] = "error: NewClient was used"]
            /\ ipc' = ipc
       ELSE /\ ires' = [ires EXCEPT ![i] = "none"]
            /\ ipc' = [ipc EXCEPT ![i] = "once"]
    /\ UNCHANGED <<clntMngr, unmanagedClients, managerReturned,
                   clientReturned>>
    /\ UNCHANGED <<mainvars, shvars, qvars, pkvars, umvars>>

\* GetClientManager: once.Do stores the clientManager (the first time) and
\* the manager is returned with a nil error.
GetClientManagerReturn(i) ==
    /\ ipc[i] = "once"
    /\ clntMngr' = "stored"
    /\ ires' = [ires EXCEPT ![i] = "manager"]
    /\ managerReturned' = TRUE
    /\ ipc' = [ipc EXCEPT ![i] = "idle"]
    /\ UNCHANGED <<icalls, unmanagedClients, clientReturned>>
    /\ UNCHANGED <<mainvars, shvars, qvars, pkvars, umvars>>

\* NewClient: switch clntMngr.Load().(type) { case *clientManager: ... }
ManagerSeen == clntMngr = "stored"

\* NewClient: the test of clntMngr; the error is returned at once,
\* otherwise the goroutine goes on to its store.
NewClientTest(i) ==
    /\ ipc[i] = "idle"
    /\ icalls < MaxInitCalls
    /\ icalls' = icalls + 1
    /\ IF ManagerSeen
       THEN /\ ires' = [ires EXCEPT ![i] = "error: ClientManager is in use"]
            /\ ipc' = ipc
       ELSE /\ ires' = [ires EXCEPT ![i] = "none"]
            /\ ipc' = [ipc EXCEPT ![i] = "store"]
    /\ UNCHANGED <<clntMngr, unmanagedClients, managerReturned,
                   clientReturned>>
    /\ UNCHANGED <<mainvars, shvars, qvars, pkvars, umvars>>

\* NewClient: atomic.StoreUint32(&unmanagedClients, 1) and the return of
\* the client with a nil error.
NewClientReturn(i) ==
    /\ ipc[i] = "store"
    /\ unmanagedClients' = 1
    /\ ires' = [ires EXCEPT ![i] = "client"]
    /\ clientReturned' = TRUE
    /\ ipc' = [ipc EXCEPT ![i] = "idle"]
    /\ UNCHANGED <<icalls, clntMngr, managerReturned>>
    /\ UNCHANGED <<mainvars, shvars, qvars, pkvars, umvars>>

ModeNext ==
    \/ \E i \in Initializers : GetClientManagerTest(i)
    \/ \E i \in Initializers : GetClientManagerReturn(i)
    \/ \E i \in Initializers : NewClientTest(i)
    \/ \E i \in Initializers : NewClientReturn(i)

ModeSpec == Init /\ [][ModeNext]_vars

\* ---------------------------------------------------------------------
\* A Client made by NewClient: its callers call NewClientHandle themselves,
\* without the lock the clientManager takes around that call.
\* ---------------------------------------------------------------------

\* NewClientHandle: if c.qq == nil, read without c.mu.
NewClientHandleTest(g) ==
    /\ ~kpanic
    /\ opc[g] = "idle"
    /\ ~oheld[g]
    /\ opens < MaxOpens
    /\ opens' = opens + 1
    /\ opc' = [opc EXCEPT ![g] = IF kqq = 0 THEN "start" ELSE "attach"]
    /\ ores' = [ores EXCEPT ![g] = "none"]
    /\ UNCHANGED <<oheld, kqq, kchans, kworkers, ktransports, kwg, ksig,
                   kmon, kpanic>>
    /\ UNCHANGED <<mainvars, shvars, mdvars, qvars, pkvars>>

\* The first monitor not started yet.
NextMonitor ==
    CHOOSE m \in MonitorIds :
        kmon[m] = "none" /\ \A n \in 1..(m - 1) : kmon[n] # "none"

\* start(), reached because the test found c.qq nil: New*Packager (opened
\* is its outcome), c.Packager = p, c.qq = make(chan query),
\* go c.queryListener(), c.NewClientHandle() (wg.Add(1), the newQQSignal
\* sender, the forwarder), go c.queryQueueChannelMonitor().
clientStart(g, opened) ==
    /\ ~kpanic
    /\ opc[g] = "start"
    /\ opc' = [opc EXCEPT ![g] = "idle"]
    /\ IF opened
       THEN /\ ktransports' = ktransports + 1
            /\ kchans' = kchans + 1
            /\ kqq' = kchans + 1
            /\ kworkers' = kworkers \cup {kchans + 1}
            /\ kwg' = kwg + 1
            /\ ksig' = ksig + 1
            /\ kmon' = [kmon EXCEPT ![NextMonitor] = "wait"]
            /\ oheld' = [oheld EXCEPT ![g] = TRUE]
            /\ ores' = [ores EXCEPT ![g] = "handle"]
       ELSE /\ ores' = [ores EXCEPT ![g] = "error"]
            /\ UNCHANGED <<ktransports, kchans, kqq, kworkers, kwg, ksig,
                           kmon, oheld>>
    /\ UNCHANGED <<opens, kpanic>>
    /\ UNCHANGED <<mainvars, shvars, mdvars, qvars, pkvars>>

\* NewClientHandle after the test found c.qq set: c.wg.Add(1), the
\* newQQSignal sender, the forwarder onto c.qq, the ClientHandle.
clientAttach(g) ==
    /\ ~kpanic
    /\ opc[g] = "attach"
    /\ opc' = [opc EXCEPT ![g] = "idle"]
    /\ kwg' = kwg + 1
    /\ ksig' = ksig + 1
    /\ oheld' = [oheld EXCEPT ![g] = TRUE]
    /\ ores' = [ores EXCEPT ![g] = "handle"]
    /\ UNCHANGED <<opens, kqq, kchans, kworkers, ktransports, kmon, kpanic>>
    /\ UNCHANGED <<mainvars, shvars, mdvars, qvars, pkvars>>

\* ClientHandle.Close and the exit of the handle's forwarder:
\* <-c.newQQSignal, c.wg.Done().
unmanagedClose(g) ==
    /\ ~kpanic
    /\ opc[g] = "idle"
    /\ oheld[g]
    /\ oheld' = [oheld EXCEPT ![g] = FALSE]
    /\ kwg' = kwg - 1
    /\ ksig' = ksig - 1
    /\ UNCHANGED <<opc, ores, opens, kqq, kchans, kworkers, ktransports,
                   kmon, kpanic>>
    /\ UNCHANGED <<mainvars, shvars, mdvars, qvars, pkvars>>

\* queryQueueChannelMonitor: c.wg.Wait() returns.
unmanagedMonitorWait(m) ==
    /\ ~kpanic
    /\ kmon[m] = "wait"
    /\ kwg = 0
    /\ kmon' = [kmon EXCEPT ![m] = "lock"]
    /\ UNCHANGED <<opc, oheld, ores, opens, kqq, kchans, kworkers,
                   ktransports, kwg, ksig, kpanic>>
    /\ UNCHANGED <<mainvars, shvars, mdvars, qvars, pkvars>>

\* queryQueueChannelMonitor from c.mu.Lock() to c.mu.Unlock(): the select
\* on newQQSignal (atSend: a started sender has reached its send), and on
\* its default case close(c.qq), c.qq = nil; isManagedClient is false.  The
\* queryListener ranging over the closed channel exits and closes the
\* transport.  close of a nil channel panics.
unmanagedMonitorCheck(m, atSend) ==
    /\ ~kpanic
    /\ kmon[m] = "lock"
    /\ atSend => ksig > 0
    /\ IF atSend
       THEN /\ kmon' = [kmon EXCEPT ![m] = "wait"]
            /\ UNCHANGED <<kqq, kworkers, ktransports, kpanic>>
       ELSE IF kqq = 0
       THEN /\ kmon' = [kmon EXCEPT ![m] = "panic"]
            /\ kpanic' = TRUE
            /\ UNCHANGED <<kqq, kworkers, ktransports>>
       ELSE /\ kmon' = [kmon EXCEPT ![m] = "done"]
            /\ kqq' = 0
            /\ kworkers' = kworkers \ {kqq}
            /\ ktransports' = IF kqq \in kworkers THEN ktransports - 1
                              ELSE ktransports
            /\ UNCHANGED kpanic
    /\ UNCHANGED <<opc, oheld, ores, opens, kchans, kwg, ksig>>
    /\ UNCHANGED <<mainvars, shvars, mdvars, qvars, pkvars>>

UnmanagedNext ==
    \/ \E g \in Openers : NewClientHandleTest(g)
    \/ \E g \in Openers, opened \in BOOLEAN : clientStart(g, opened)
    \/ \E g \in Openers : clientAttach(g)
    \/ \E g \in Openers : unmanagedClose(g)
    \/ \E m \in MonitorIds : unmanagedMonitorWait(m)
    \/ \E m \in MonitorIds, atSend \in BOOLEAN :
           unmanagedMonitorCheck(m, atSend)

UnmanagedSpec == Init /\ [][UnmanagedNext]_vars

\* ---------------------------------------------------------------------
\* Query.go: the request codec
\* ---------------------------------------------------------------------

\* isReadFunction
isReadFunction(fCode) ==
    fCode \in {FunctionReadCoils, FunctionReadDiscreteInputs,
               FunctionReadHoldingRegisters, FunctionReadInputRegisters}

\* isWriteSingleFunction
isWriteSingleFunction(fCode) ==
    fCode \in {FunctionWriteSingleCoil, FunctionWriteSingleRegister}

\* isWriteMultipleFunction
isWriteMultipleFunction(fCode) ==
    fCode \in {FunctionWriteMultipleCoils, FunctionWriteMultipleRegisters}

\* isWriteFunction
isWriteFunction(fCode) ==
    fCode \in {FunctionWriteSingleCoil, FunctionWriteSingleRegister,
               FunctionWriteMultipleCoils, FunctionWriteMultipleRegisters,
               FunctionMaskWriteRegister}

\* The cases of the switch of IsValid other than default.
SupportedFunctions ==
    {FunctionReadCoils, FunctionReadDiscreteInputs,
     FunctionReadHoldingRegisters, FunctionReadInputRegisters,
     FunctionWriteSingleCoil, FunctionWriteSingleRegister,
     FunctionWriteMultipleCoils, FunctionWriteMultipleRegisters,
     FunctionMaskWriteRegister}

\* IsValid: var maxQuantity uint16 as the switch sets it (0 when no case
\* assigns it).
maxQuantity(fCode) ==
    CASE fCode \in {FunctionReadCoils, FunctionReadDiscreteInputs} -> 2000
      [] fCode \in {FunctionReadHoldingRegisters,
                    FunctionReadInputRegisters} -> 125
      [] fCode = FunctionWriteMultipleCoils -> 2000
      [] fCode = FunctionWriteMultipleRegisters -> 123
      [] OTHER -> 0

\* Variant that forgets to round the number of 16-bit words up.
expectedLenFloor(q) ==
    CASE q.FunctionCode \in {FunctionWriteSingleCoil,
                             FunctionWriteSingleRegister} -> 1
      [] q.FunctionCode = FunctionWriteMultipleCoils -> q.Quantity \div 16
      [] q.FunctionCode = FunctionWriteMultipleRegisters -> q.Quantity
      [] q.FunctionCode = FunctionMaskWriteRegister -> 2
      [] OTHER -> 0

\* IsValid: var expectedLen int as the switch sets it.
expectedLen(q) ==
    CASE q.FunctionCode \in {FunctionWriteSingleCoil,
                             FunctionWriteSingleRegister} -> 1
      [] q.FunctionCode = FunctionWriteMultipleCoils ->
            q.Quantity \div 16 + (IF q.Quantity % 16 # 0 THEN 1 ELSE 0)
      [] q.FunctionCode = FunctionWriteMultipleRegisters -> q.Quantity
      [] q.FunctionCode = FunctionMaskWriteRegister -> 2
      [] OTHER -> 0

\* q.Address+q.Quantity: an addition of two uint16, which wraps.
AddUint16(a, b) == (a + b) % 65536

\* Query.IsValid: (bool, error); err names the check that failed.
IsValid(q) ==
    IF q.FunctionCode \notin SupportedFunctions
    THEN [ok |-> FALSE, err |-> "Invalid FunctionCode"]
    ELSE IF /\ \/ isReadFunction(q.FunctionCode)
               \/ isWriteMultipleFunction(q.FunctionCode)
            /\ \/ q.Quantity = 0
               \/ AddUint16(q.Address, q.Quantity)
                      > maxQuantity(q.FunctionCode)
    THEN [ok |-> FALSE, err |-> "out of range"]
    ELSE IF /\ isWriteFunction(q.FunctionCode)
            /\ Len(q.Values) # expectedLen(q)
    THEN [ok |-> FALSE, err |-> "len(Values)"]
    ELSE [ok |-> TRUE, err |-> "none"]

\* dataBlock: every uint16 as two bytes, high byte first
\* (binary.BigEndian.PutUint16).
dataBlock(value) ==
    [i \in 1..(2 * Len(value)) |->
        IF i % 2 = 1 THEN value[(i + 1) \div 2] \div 256
                     ELSE value[i \div 2] % 256]

\* dataBlockSuffix: the words, one byte uint8(len(suffix)), the suffix.
dataBlockSuffix(suffix, value) ==
    dataBlock(value) \o <<Len(suffix) % 256>> \o suffix

\* Variant that sends the value of a coil as the caller gave it.
CoilValueRaw(v) == v

\* data, FunctionWriteSingleCoil: if q.Values[0] != 0 { q.Values[0] = 0xFF00 }
CoilValue(v) == IF v # 0 THEN 65280 ELSE v

\* The slice q.Values after data(): the receiver is a copy of the Query but
\* its Values shares the caller's backing array, so the store into
\* q.Values[0] is seen by the caller.
dataValues(q) ==
    IF IsValid(q).ok /\ q.FunctionCode = FunctionWriteSingleCoil
    THEN <<CoilValue(q.Values[1])>>
    ELSE q.Values

\* Query.data: ([]byte, error); nil is the empty sequence.
data(q) ==
    IF ~IsValid(q).ok
    THEN [data |-> <<>>, err |-> IsValid(q).err]
    ELSE [err |-> "none",
          data |->
            IF isWriteMultipleFunction(q.FunctionCode)
            THEN LET values == dataBlock(q.Values)
                     numValues ==
                         q.Quantity \div 8
                             + (IF q.Quantity % 8 # 0 THEN 1 ELSE 0)
                 IN  dataBlockSuffix(
                         IF q.FunctionCode = FunctionWriteMultipleCoils
                         THEN SubSeq(values, 1, numValues)
                         ELSE values,
                         <<q.Address, q.Quantity>>)
            ELSE IF isWriteSingleFunction(q.FunctionCode)
            THEN dataBlock(<<q.Address, dataValues(q)[1]>>)
            ELSE IF q.FunctionCode = FunctionMaskWriteRegister
            THEN dataBlock(<<q.Address, q.Values[1], q.Values[2]>>)
            ELSE dataBlock(<<q.Address, q.Quantity>>)]

\* A Query struct literal: every field is exported, so a caller can build
\* any combination.
QueryLiteral(q) ==
    /\ qpc = "none"
    /\ qry' = q
    /\ qvia' = "literal"
    /\ qin' = q.Values
    /\ qpc' = "built"
    /\ UNCHANGED <<qvalid, qdata>>
    /\ UNCHANGED <<mainvars, shvars, mdvars, pkvars, umvars>>

\* WriteSingleCoil(slaveID, address, value bool) -> WriteSingleQuery, which
\* builds the Query and calls IsValid.
WriteSingleCoil(slaveID, address, value) ==
    /\ qpc = "none"
    /\ LET q == [FunctionCode |-> FunctionWriteSingleCoil,
                 SlaveID |-> slaveID,
                 Address |-> address,
                 Quantity |-> 0,
                 Values |-> <<IF value THEN 65280 ELSE 0>>]
       IN  /\ qry' = q
           /\ qin' = q.Values
           /\ qvalid' = IsValid(q)
    /\ qvia' = IF value THEN "WriteSingleCoil(true)"
                        ELSE "WriteSingleCoil(false)"
    /\ qpc' = "validated"
    /\ UNCHANGED qdata
    /\ UNCHANGED <<mainvars, shvars, mdvars, pkvars, umvars>>

\* q.IsValid() called on the Query.
QueryIsValid ==
    /\ qpc = "built"
    /\ qvalid' = IsValid(qry)
    /\ qpc' = "validated"
    /\ UNCHANGED <<qry, qdata, qvia, qin>>
    /\ UNCHANGED <<mainvars, shvars, mdvars, pkvars, umvars>>

\* q.data() called on the Query (by a Packager's generateADU).
Querydata ==
    /\ qpc \in {"built", "validated"}
    /\ qvalid' = IsValid(qry)
    /\ qdata' = data(qry)
    /\ qry' = [qry EXCEPT !.Values = dataValues(qry)]
    /\ qpc' = "framed"
    /\ UNCHANGED <<qvia, qin>>
    /\ UNCHANGED <<mainvars, shvars, mdvars, pkvars, umvars>>

QueryNext ==
    \/ /\ qpc = "none"
       /\ \E q \in Queries : QueryLiteral(q)
    \/ /\ qpc = "none"
       /\ \E slaveID \in SlaveIDs, address \in Addresses, value \in BOOLEAN :
             WriteSingleCoil(slaveID, address, value)
    \/ QueryIsValid
    \/ Querydata

QuerySpec == Init /\ [][QueryNext]_vars

\* ---------------------------------------------------------------------
\* Query.go: isValidResponse
\* ---------------------------------------------------------------------

\* The entries of the map exceptions for the Modbus exception codes.
exceptions ==
    (1 :> "Illegal Function (0x01)") @@ (2 :> "Data Address (0x02)") @@
    (3 :> "Data Value (0x03)") @@ (4 :> "Slave Device Failure (0x04)") @@
    (5 :> "Acknowledge (0x05)") @@ (6 :> "Slave Device Busy (0x06)") @@
    (8 :> "Memory Parity Error (0x08)") @@
    (10 :> "Gateway Path Unavailable (0x0A)") @@
    (11 :> "Gateway Target Device Failed to Respond (0x0B)")

\* Variant whose switch lacks the two gateway exception codes.
ExceptionCasesShort == {1, 2, 3, 4, 5, 6, 8}

\* isValidResponse: the cases of switch response[2].
ExceptionCases == {1, 2, 3, 4, 5, 6, 8, 10, 11}

\* isValidResponse, read functions: var expectedLen int.
responseLen(q) ==
    IF q.FunctionCode \in {FunctionReadCoils, FunctionReadDiscreteInputs}
    THEN q.Quantity \div 8 + (IF q.Quantity % 8 # 0 THEN 1 ELSE 0)
    ELSE q.Quantity * 2

\* isValidResponse: the loop for i := 0; i < 4; i++ over the echo of a write,
\* from index i on (0-based).  response[2+i] beyond the end of the response
\* is an index out of range, a run-time panic; so is data[i] when q.data()
\* returned nil.
RECURSIVE writeEcho(_, _, _)
writeEcho(d, response, i) ==
    IF i = 4 THEN "none"
    ELSE IF i >= Len(response) THEN "WriteDataMismatch"
    ELSE IF i >= Len(d) \/ 2 + i >= Len(response) THEN "panic"
    ELSE IF d[i + 1] # response[2 + i + 1] THEN "WriteDataMismatch"
    ELSE writeEcho(d, response, i + 1)

\* Variant that compares the byte-count field after the length.
readLengthLast(q, response) ==
    IF Len(response) < 3 THEN "panic"
    ELSE IF Len(response) - 3 # responseLen(q) THEN "ResponseLengthMismatch"
    ELSE IF response[3] # responseLen(q) THEN "BadResponseLength"
    ELSE "none"

\* isValidResponse: the two length checks of a read response.
readLength(q, response) ==
    IF Len(response) < 3 THEN "panic"
    ELSE IF response[3] # responseLen(q) THEN "BadResponseLength"
    ELSE IF Len(response) - 3 # responseLen(q) THEN "ResponseLengthMismatch"
    ELSE "none"

\* Query.isValidResponse: the error it returns ("none": true, nil; "panic":
\* an index out of range).  response[1]&0x7f clears bit 0x80.
isValidResponse(q, response) ==
    IF Len(response) = 0 THEN "EmptyResponse"
    ELSE IF response[1] # q.SlaveID THEN "SlaveIDMismatch"
    ELSE IF Len(response) < 2 THEN "panic"
    ELSE IF response[2] # q.FunctionCode
    THEN IF response[2] % 128 = q.FunctionCode
         THEN IF Len(response) < 3 THEN "panic"
              ELSE IF response[3] \in ExceptionCases
              THEN exceptions[response[3]]
              ELSE "Unknown"
         ELSE "Unknown"
    ELSE IF isWriteFunction(q.FunctionCode)
    THEN writeEcho(data(q).data, response, 0)
    ELSE IF isReadFunction(q.FunctionCode)
    THEN readLength(q, response)
    ELSE "none"

\* ---------------------------------------------------------------------
\* TCPPackager.go, the RTU and ASCII packagers: framing
\* ---------------------------------------------------------------------

\* a ^ b on unsigned integers
RECURSIVE Xor(_, _)
Xor(a, b) ==
    IF a = 0 THEN b
    ELSE IF b = 0 THEN a
    ELSE ((a + b) % 2) + 2 * Xor(a \div 2, b \div 2)

\* crc: the inner loop for j := 0; j < 8; j++, j more rounds.  (The test
\* next >= 0 is always true; it makes the value be computed before the next
\* round.)
RECURSIVE crcBits(_, _)
crcBits(crc16, j) ==
    IF j = 0 THEN crc16
    ELSE LET next == IF crc16 % 2 = 1 THEN Xor(crc16 \div 2, 40961)
                                      ELSE crc16 \div 2
         IN  IF next >= 0 THEN crcBits(next, j - 1) ELSE 0

\* crc: the outer loop from byte i on (1-based).
RECURSIVE crcBytes(_, _, _)
crcBytes(crc16, bytes, i) ==
    IF i > Len(bytes) THEN crc16
    ELSE LET next == crcBits(Xor(crc16, bytes[i]), 8)
         IN  IF next >= 0 THEN crcBytes(next, bytes, i + 1) ELSE 0

\* Variant that starts the register at zero.
crcFromZero(bytes) == crcBytes(0, bytes, 1)

\* crc: var crc16 uint16 = 0xffff
crc(bytes) == crcBytes(65535, bytes, 1)

\* the sum of the bytes modulo 256 (var sum uint8)
RECURSIVE SumBytes(_, _)
SumBytes(bytes, i) ==
    IF i > Len(bytes) THEN 0
    ELSE (bytes[i] + SumBytes(bytes, i + 1)) % 256

\* Variant that takes the one's complement of the sum.
lrcOnes(bytes) == 255 - SumBytes(bytes, 1)

\* lrc: uint8(-int8(sum))
lrc(bytes) == (256 - SumBytes(bytes, 1)) % 256

\* The character hex.Encode writes for a nibble, after bytes.ToUpper.
HexDigit(d) == IF d < 10 THEN 48 + d ELSE 55 + d

\* hex.Encode followed by bytes.ToUpper
HexEncode(bytes) ==
    [i \in 1..(2 * Len(bytes)) |->
        IF i % 2 = 1 THEN HexDigit(bytes[(i + 1) \div 2] \div 16)
                     ELSE HexDigit(bytes[i \div 2] % 16)]

\* The nibble hex.Decode reads from a character (16: not a hex digit).
FromHex(c) ==
    IF c >= 48 /\ c <= 57 THEN c - 48
    ELSE IF c >= 65 /\ c <= 70 THEN c - 55
    ELSE IF c >= 97 /\ c <= 102 THEN c - 87
    ELSE 16

\* hex.Decode(response, src) into a zeroed response of
\* rawN bytes; Decode stops at the first character that is not a hex digit
\* and the error it returns is dropped.
HexDecode(src, rawN) ==
    LET bad == {k \in 1..rawN :
                    FromHex(src[2 * k - 1]) = 16 \/ FromHex(src[2 * k]) = 16}
    IN  [k \in 1..rawN |->
            IF \E b \in bad : b <= k THEN 0
            ELSE FromHex(src[2 * k - 1]) * 16 + FromHex(src[2 * k])]

\* Variant in which no packager looks at the slave id.
SlaveIDAccepted(mode, q) == FALSE

\* generateADU of the RTU and ASCII packagers: if q.SlaveID == 0.
SlaveIDRejected(mode, q) == mode \in {ModeRTU, ModeASCII} /\ q.SlaveID = 0

\* generateADU of the three packagers: [adu, err].
generateADU(mode, tid, q) ==
    IF data(q).err # "none" THEN [adu |-> <<>>, err |-> data(q).err]
    ELSE IF SlaveIDRejected(mode, q)
    THEN [adu |-> <<>>, err |-> "SlaveID cannot be 0"]
    ELSE IF mode = ModeTCP
    THEN LET d == data(q).data IN
         [err |-> "none",
          adu |-> <<tid \div 256, tid % 256, 0, 0,
                    ((Len(d) + 2) \div 256) % 256, (Len(d) + 2) % 256,
                    q.SlaveID, q.FunctionCode>> \o d]
    ELSE LET packet == <<q.SlaveID, q.FunctionCode>> \o data(q).data IN
         IF mode = ModeRTU
         THEN [err |-> "none",
               adu |-> packet \o <<crc(packet) % 256, crc(packet) \div 256>>]
         ELSE [err |-> "none",
               adu |-> <<58>> \o HexEncode(packet \o <<lrc(packet)>>)
                           \o <<13, 10>>]

\* Variant that returns a write response the way a read response is.
payloadFromThree(q, response) ==
    SubSeq(response, 4, Len(response))

\* Send, after isValidResponse: response[3:] for a read function,
\* response[2:] otherwise.
payload(q, response) ==
    IF isReadFunction(q.FunctionCode)
    THEN SubSeq(response, 4, Len(response))
    ELSE SubSeq(response, 3, Len(response))

\* Send of the three packagers after isValidResponse.
validated(q, response) ==
    IF isValidResponse(q, response) # "none"
    THEN [data |-> <<>>, err |-> isValidResponse(q, response)]
    ELSE [data |-> payload(q, response), err |-> "none"]

\* The byte at 0-based index i of the buffer Read filled with wire.
At(wire, i) == IF i < Len(wire) THEN wire[i + 1] ELSE 0

\* Variant that validates the response before it looks at the
\* transaction id.
receiveTCPLate(tid, q, wire) ==
    IF Len(wire) < 6 THEN [data |-> <<>>, err |-> "panic"]
    ELSE LET v == validated(q, SubSeq(wire, 7, Len(wire))) IN
         IF v.err # "none" THEN v
         ELSE IF At(wire, 0) * 256 + At(wire, 1) # tid
         THEN [data |-> <<>>, err |-> "Mismatched transactionID"]
         ELSE v

\* TCPPackager.Send from the return of Read (n = len(wire)) on.
\* response[6:n] with n < 6 is a slice out of range, a run-time panic.
receiveTCP(tid, q, wire) ==
    IF At(wire, 0) * 256 + At(wire, 1) # tid
    THEN [data |-> <<>>, err |-> "Mismatched transactionID"]
    ELSE IF Len(wire) < 6 THEN [data |-> <<>>, err |-> "panic"]
    ELSE validated(q, SubSeq(wire, 7, Len(wire)))

\* RTUPackager.Send from the return of Read on; response[:n-2] with n < 2
\* panics.
receiveRTU(q, wire) ==
    LET n == Len(wire) IN
    IF n < 2 THEN [data |-> <<>>, err |-> "panic"]
    ELSE IF crc(SubSeq(wire, 1, n - 2)) # wire[n - 1] + 256 * wire[n]
    THEN [data |-> <<>>, err |-> "BadChecksum"]
    ELSE validated(q, SubSeq(wire, 1, n - 2))

\* ASCIIPackager.Send from the return of Read on.  The framing test
\* short-circuits; asciiResponse[asciiN-2] with asciiN < 2 and
\* response[:rawN-1] with rawN = 0 panic.
receiveASCII(q, wire) ==
    LET asciiN == Len(wire)
        rawN == IF asciiN < 3 THEN 0 ELSE (asciiN - 3) \div 2
        response == HexDecode(SubSeq(wire, 2, asciiN - 2), rawN)
    IN  IF At(wire, 0) # 58 THEN [data |-> <<>>, err |-> "BadFraming"]
        ELSE IF asciiN < 2 THEN [data |-> <<>>, err |-> "panic"]
        ELSE IF wire[asciiN - 1] # 13 \/ wire[asciiN] # 10
        THEN [data |-> <<>>, err |-> "BadFraming"]
        ELSE IF rawN = 0 THEN [data |-> <<>>, err |-> "panic"]
        ELSE IF response[rawN] # lrc(SubSeq(response, 1, rawN - 1))
        THEN [data |-> <<>>, err |-> "BadChecksum"]
        ELSE validated(q, SubSeq(response, 1, rawN - 1))

\* Send of the packager of the given mode from the return of Read on.
receive(mode, tid, q, wire) ==
    IF mode = ModeTCP THEN receiveTCP(tid, q, wire)
    ELSE IF mode = ModeRTU THEN receiveRTU(q, wire)
    ELSE receiveASCII(q, wire)

\* ---------------------------------------------------------------------
\* The device at the other end of the transport
\* ---------------------------------------------------------------------

\* Ways the device (or the line) wraps a response for Read to return.
Wraps(mode) ==
    IF mode = ModeTCP THEN {"good", "badid", "short"}
    ELSE IF mode = ModeRTU THEN {"good", "badsum", "short"}
    ELSE {"good", "badsum", "badframe", "short"}

\* The bytes Read returns for the response pdu wrapped the given way.
Wire(mode, tid, pdu, wrap) ==
    IF mode = ModeTCP
    THEN LET id == IF wrap = "badid" THEN (tid + 1) % 65536 ELSE tid
             hdr == <<id \div 256, id % 256, 0, 0,
                      Len(pdu) \div 256, Len(pdu) % 256>>
         IN  IF wrap = "short" THEN SubSeq(hdr, 1, 4) ELSE hdr \o pdu
    ELSE IF mode = ModeRTU
    THEN LET sum == IF wrap = "badsum" THEN (crc(pdu) + 1) % 65536
                                       ELSE crc(pdu)
         IN  IF wrap = "short" THEN <<1>>
             ELSE pdu \o <<sum % 256, sum \div 256>>
    ELSE LET sum == IF wrap = "badsum" THEN (lrc(pdu) + 1) % 256
                                       ELSE lrc(pdu)
         IN  IF wrap = "short" THEN <<58>>
             ELSE <<IF wrap = "badframe" THEN 59 ELSE 58>>
                      \o HexEncode(pdu \o <<sum>>) \o <<13, 10>>

\* k bytes of register or coil data
Fill(k) == [i \in 1..k |-> i]

\* The responses (slave id, function code, body) a device may send to the
\* valid query q: well-formed ones, exception frames, frames of another
\* slave or function, wrong counts and lengths, wrong echoes, and what is
\* left of them when the frame is cut short.
Responses(q) ==
    LET fc == q.FunctionCode
        n == responseLen(q)
        d == data(q).data
        excs == {<<c>> : c \in (0..12) \cup {170}}
        reads == {<<c>> \o Fill(k) : c \in {n - 1, n, n + 1},
                                     k \in {n - 1, n, n + 1}}
        writes == {d, SubSeq(d, 1, 4), SubSeq(d, 1, 3),
                   [d EXCEPT ![3] = 254]}
        bodies == excs \cup (IF isReadFunction(fc) THEN reads ELSE writes)
        full == {<<s, f>> \o b :
                    s \in {q.SlaveID, (q.SlaveID + 1) % 256},
                    f \in {fc, fc + 128, (fc + 149) % 256},
                    b \in bodies}
    IN  full \cup UNION {{SubSeq(r, 1, k) : k \in {j \in 0..5 : j <= Len(r)}} :
                            r \in full}

\* ---------------------------------------------------------------------
\* Packager.Send
\* ---------------------------------------------------------------------

NoResult == [data |-> <<>>, err |-> "none"]
NoResponse == [pdu |-> <<>>, wrap |-> "none"]

\* NewTCPPackager, NewRTUPackager, NewASCIIPackager: a packager on an open
\* transport; transactionID is zero.
NewPackager(mode) ==
    /\ ppc = "none"
    /\ pmode' = mode
    /\ ppc' = "idle"
    /\ UNCHANGED <<transactionID, pq, written, nwrites, nreads, prsp, pres,
                   nsends, inbuf>>
    /\ UNCHANGED <<mainvars, shvars, mdvars, qvars, umvars>>

\* Variant whose Send registers the deferred increment before generateADU.
AfterRefusedCounts(mode, tid) ==
    IF mode = ModeTCP THEN (tid + 1) % 65536 ELSE tid

\* TCPPackager.Send: defer func() { pkgr.transactionID++ }() is registered
\* after the return on the error of generateADU.
AfterRefused(mode, tid) == tid

\* Variant whose counter is wider than uint16.
AfterExchangeWide(mode, tid) ==
    IF mode = ModeTCP THEN tid + 1 ELSE tid

\* Send once the deferred increment is registered: transactionID++ (uint16)
\* runs when Send returns; the RTU and ASCII packagers have no transaction
\* id.
AfterExchange(mode, tid) ==
    IF mode = ModeTCP THEN (tid + 1) % 65536 ELSE tid

\* Send up to its blocking Read: generateADU, Write.
PackagerSend(q, writeOk) ==
    /\ ppc = "idle"
    /\ nsends < MaxSends
    /\ nsends' = nsends + 1
    /\ pq' = q
    /\ prsp' = NoResponse
    /\ LET g == generateADU(pmode, transactionID, q) IN
       IF g.err # "none"
       THEN /\ pres' = [data |-> <<>>, err |-> g.err]
            /\ ppc' = "returned"
            /\ written' = <<>>
            /\ transactionID' = AfterRefused(pmode, transactionID)
            /\ UNCHANGED <<nwrites, nreads>>
       ELSE /\ nwrites' = nwrites + 1
            /\ written' = g.adu
            /\ nreads' = nreads
            /\ IF writeOk
               THEN /\ ppc' = "reading"
                    /\ pres' = NoResult
                    /\ transactionID' = transactionID
               ELSE /\ ppc' = "returned"
                    /\ pres' = [data |-> <<>>, err |-> "write error"]
                    /\ transactionID' = AfterExchange(pmode, transactionID)
    /\ UNCHANGED <<pmode, inbuf>>
    /\ UNCHANGED <<mainvars, shvars, mdvars, qvars, umvars>>

\* The answer the protocol prescribes to the valid query q.
Genuine(q) ==
    <<q.SlaveID, q.FunctionCode>> \o
        (IF isReadFunction(q.FunctionCode)
         THEN <<responseLen(q)>> \o Fill(responseLen(q))
         ELSE SubSeq(data(q).data, 1, 4))

\* When the device's answer to the request reaches the transport: before
\* Read returns, after Read has returned (it stays with the transport, which
\* is modelled for the TCP connection), or never.  Read returns the bytes
\* that wait on the transport, oldest first.
Arrivals(readOk) ==
    IF inbuf = <<>>
    THEN IF readOk THEN {"intime"}
         ELSE IF pmode = ModeTCP THEN {"late", "never"} ELSE {"never"}
    ELSE IF readOk THEN {"intime", "late", "never"} ELSE {"never"}

\* Send from the return of Read to its own return.  prsp.wrap is "behind"
\* when the answer was read behind waiting bytes and "stale" when only
\* waiting bytes were read.
PackagerReceive(readOk, pdu, wrap, arrival) ==
    /\ ppc = "reading"
    /\ arrival \in Arrivals(readOk)
    /\ nreads' = nreads + 1
    /\ LET own == Wire(pmode, transactionID, pdu, wrap)
           wire == IF inbuf = <<>> THEN own
                   ELSE IF arrival = "intime" THEN inbuf \o own
                   ELSE inbuf
       IN  /\ prsp' = IF ~readOk THEN NoResponse
                      ELSE IF inbuf = <<>> THEN [pdu |-> pdu, wrap |-> wrap]
                      ELSE IF arrival = "intime"
                      THEN [pdu |-> pdu, wrap |-> "behind"]
                      ELSE [pdu |-> pdu, wrap |-> "stale"]
           /\ pres' = IF readOk
                      THEN receive(pmode, transactionID, pq, wire)
                      ELSE [data |-> <<>>, err |-> "read error"]
           /\ inbuf' = IF arrival = "late" THEN own ELSE <<>>
    /\ ppc' = IF pres'.err = "panic" THEN "panic" ELSE "returned"
    /\ transactionID' = AfterExchange(pmode, transactionID)
    /\ UNCHANGED <<pmode, pq, written, nwrites, nsends>>
    /\ UNCHANGED <<mainvars, shvars, mdvars, qvars, umvars>>

\* LongRun exchanges of a new TCP packager in a row, each a Send that
\* wrote, read and returned: the deferred transactionID++ ran LongRun times.
PackagerLongRun ==
    /\ ppc = "idle"
    /\ pmode = ModeTCP
    /\ nsends = 0
    /\ transactionID = 0
    /\ transactionID' = (transactionID + LongRun) % 65536
    /\ nwrites' = nwrites + LongRun
    /\ nreads' = nreads + LongRun
    /\ UNCHANGED <<ppc, pmode, pq, written, prsp, pres, nsends, inbuf>>
    /\ UNCHANGED <<mainvars, shvars, mdvars, qvars, umvars>>

\* The caller has taken what Send returned.
PackagerReturned ==
    /\ ppc = "returned"
    /\ ppc' = "idle"
    /\ pq' = NoQuery
    /\ prsp' = NoResponse
    /\ pres' = NoResult
    /\ written' = <<>>
    /\ UNCHANGED <<pmode, transactionID, nwrites, nreads, nsends, inbuf>>
    /\ UNCHANGED <<mainvars, shvars, mdvars, qvars, umvars>>

PackagerNext ==
    \/ /\ ppc = "none"
       /\ \E mode \in ValidModes : NewPackager(mode)
    \/ /\ ppc = "idle"
       /\ \E q \in SendQueries, writeOk \in BOOLEAN : PackagerSend(q, writeOk)
    \/ /\ ppc = "reading"
       /\ inbuf = <<>>
       /\ \E pdu \in Responses(pq), wrap \in Wraps(pmode) :
             PackagerReceive(TRUE, pdu, wrap, "intime")
    \* a Read that fails, or that finds bytes of an earlier exchange: the
    \* device answers as prescribed
    \/ /\ ppc = "reading"
       /\ \E readOk \in BOOLEAN, arrival \in {"intime", "late", "never"} :
             PackagerReceive(readOk, Genuine(pq), "good", arrival)
    \/ PackagerReturned
    \/ PackagerLongRun

PackagerSpec == Init /\ [][PackagerNext]_vars

\* ---------------------------------------------------------------------
\* Properties
\* ---------------------------------------------------------------------

\* The queryListener of client c is running and its transport is open.
LiveWorker(c) == wpc[c] \in {"idle", "serving"} /\ transport[c] = "open"

\* The handles NewClientHandle attached to client c.
HandlesOf(c) == {h \in HandleIds : hcl[h] = c}

\* The link of client c has been torn down completely.
Shutdown(c) ==
    /\ qq[c] = "nil"
    /\ wpc[c] = "exited"
    /\ transport[c] = "closed"
    /\ clients[csettings[c].Host] # c

\* C1: at any time at most one queryListener with an open transport is live
\* for any Host.
C1_OneWorkerPerHost ==
    \A c1, c2 \in ClientIds :
        (LiveWorker(c1) /\ LiveWorker(c2)
            /\ csettings[c1].Host = csettings[c2].Host) => c1 = c2

\* C2: SetupClient never returns a handle of a link whose monitor is past its
\* re-check under the lock, and no forwarder ever sends on a closed or nil
\* link queue.
C2_NoAttachToDyingLink ==
    [][/\ \A u \in Callers :
            (upc[u] = "waitSetup" /\ upc'[u] = "ready")
                => mpc'[hcl'[uh'[u]]] \in {"wait", "lock"}
       /\ \A h \in HandleIds : fpc'[h] \notin {"stuck", "panic"}]_vars

\* C3: every SetupClient call eventually returns a handle or an error.
C3_SetupClientReturns ==
    \A u \in Callers :
        (upc[u] = "waitSetup" /\ ~panicked)
            ~> (upc[u] \in {"ready", "idle"} \/ panicked)

\* C4: once every handle of a link is closed and stays so (no acquire
\* attaches a further handle), the link is eventually torn down: queue
\* closed, worker exited, transport closed, registry entry removed.
C4_ClosedLinkShutsDown ==
    \A c \in ClientIds :
        <>[](/\ c <= nclients
             /\ \A h \in HandlesOf(c) : hstate[h] = "closed"
             /\ ~panicked)
            => <>Shutdown(c)

\* C5: while a caller holds a handle it has not closed, the handle's link
\* (acquired with a valid Mode) has its queue open, its transport open and
\* its registry entry in place.
C5_OpenHandleKeepsLink ==
    \A u \in Callers :
        (/\ uh[u] # 0
         /\ hstate[uh[u]] = "open"
         /\ csettings[hcl[uh[u]]].Mode \in ValidModes)
            => LET c == hcl[uh[u]] IN
               /\ qq[c] = "open"
               /\ transport[c] = "open"
               /\ clients[csettings[c].Host] = c

\* C6: when every client is acquired with a valid Mode, every Send on an
\* open handle eventually returns.
C6_SendReturns ==
    [](\A c \in 1..nclients : csettings[c].Mode \in ValidModes)
        => \A u \in Callers :
               (upc[u] \in {"sendq", "waitResp"}) ~> (upc[u] = "ready")

\* C7: a request submitted through a handle is answered at most once (the
\* replies under way plus the replies received never exceed one), every reply
\* is addressed to the response channel of the submitting handle, and the
\* reply a Send returned is the reply to the caller's own request.
C7_ReplyOnceToSubmitter ==
    /\ \A r \in replies : r.to = r.q
    /\ \A h \in HandleIds :
           Cardinality({r \in replies : r.q = h}) + delivered[h] <= 1
    /\ \A u \in Callers : ugot[u] # 0 => ugot[u] = uh[u]

\* Two callers hold handles of one client and one of them got its reply.
C7_Witness ==
    \E u, v \in Callers :
        /\ u # v
        /\ uh[u] # 0 /\ uh[v] # 0
        /\ hcl[uh[u]] = hcl[uh[v]]
        /\ ugot[u] = uh[u]
        /\ delivered[uh[u]] = 1

\* C8: when the registry answers a SetupClient call whose settings equal
\* those of the running client registered for the Host, the answer carries no
\* error and a handle that did not exist before and that no caller holds, the
\* handle forwards to that client, and no client object, transport or
\* queryListener is created: the Host keeps its one entry.
C8_MatchingAcquireShares ==
    [][\A u \in Callers :
         (~sresp[u].set /\ sresp'[u].set) =>
            LET cs == ucs'[u]
                c == clients[cs.Host]
            IN  (c # 0 /\ csettings[c] = cs /\ LiveWorker(c) /\ qq[c] = "open")
                => /\ sresp'[u].err = "none"
                   /\ sresp'[u].h = nhandles + 1
                   /\ hstate[sresp'[u].h] = "none"
                   /\ hstate'[sresp'[u].h] = "open"
                   /\ \A v \in Callers : uh[v] # sresp'[u].h
                   /\ hcl'[sresp'[u].h] = c
                   /\ nclients' = nclients
                   /\ transport' = transport
                   /\ wpc' = wpc
                   /\ qq' = qq
                   /\ clients'[cs.Host] = c]_vars

\* Two callers hold open handles of one running client.
C8_Witness ==
    \E u, v \in Callers :
        /\ u # v
        /\ uh[u] # 0 /\ uh[v] # 0 /\ uh[u] # uh[v]
        /\ hstate[uh[u]] = "open" /\ hstate[uh[v]] = "open"
        /\ hcl[uh[u]] = hcl[uh[v]]
        /\ LiveWorker(hcl[uh[u]])

\* C9: when the registry answers a SetupClient call whose Host has a running
\* client with other settings, the answer is the mismatch error without a
\* handle; no client object and no handle is created, the client's queue,
\* transport, queryListener and registry entry stay as they are, and its
\* WaitGroup is back at the number of its forwarders that have not finished.
C9_MismatchRejected ==
    [][\A u \in Callers :
         (~sresp[u].set /\ sresp'[u].set) =>
            LET cs == ucs'[u]
                c == clients[cs.Host]
            IN  (c # 0 /\ csettings[c] # cs /\ LiveWorker(c) /\ qq[c] = "open")
                => /\ sresp'[u].err = "mismatch"
                   /\ sresp'[u].h = 0
                   /\ nclients' = nclients
                   /\ nhandles' = nhandles
                   /\ hstate' = hstate
                   /\ hcl' = hcl
                   /\ qq' = qq
                   /\ transport' = transport
                   /\ wpc' = wpc
                   /\ clients' = clients
                   /\ wg'[c] = Cardinality({h \in HandlesOf(c) :
                                              fpc'[h] # "done"})]_vars

\* A caller got the mismatch error while another caller holds an open handle
\* of the running client of that Host.
C9_Witness ==
    \E u, v \in Callers :
        /\ u # v
        /\ uerr[u] = "mismatch" /\ upc[u] = "idle" /\ uh[u] = 0
        /\ uh[v] # 0 /\ hstate[uh[v]] = "open"
        /\ LiveWorker(hcl[uh[v]])
        /\ nclients = 1

\* C10: at most one query of a client is inside Packager.Send at any time.
C10_SendsDoNotOverlap ==
    \A c \in ClientIds : Cardinality(inSend[c]) <= 1

\* A query is inside Packager.Send while the forwarder of another handle of
\* the same client is blocked with the next query.
C10_Witness ==
    \E c \in ClientIds, h \in HandleIds :
        /\ inSend[c] # {}
        /\ h \notin inSend[c]
        /\ hcl[h] = c
        /\ fpc[h] = "parked"

\* ---- one ClientHandle used by several goroutines ----

\* No Close call has begun on the shared handle.
NotClosed ==
    /\ queryQueueCh = "open"
    /\ \A g \in Goroutines :
           gpc[g] \notin {"closeQueue", "closeResponse", "setNil"}

\* C11: while the handle has not been closed, a Send that returned a reply
\* returned the reply to the query that same call submitted.
C11_SendReturnsOwnReply ==
    NotClosed =>
        \A g \in Goroutines :
            (gop[g] = "Send" /\ gpc[g] = "idle" /\ gres[g] \in SendResults)
                => ggot[g] = gqry[g]

\* A query submitted through the handle is with the forwarder, inside
\* Packager.Send, or its reply is under way.
InFlight == fwd = "parked" \/ lst = "serving" \/ pending # {}

\* C12: while a submitted query has not been answered, the handle's reply
\* channel is open, and no query.sendResponse sends on a closed channel.
C12_CloseKeepsReplyChannel ==
    /\ InFlight => responseCh = "open"
    /\ hpanic # "send on closed ch.response"

\* C13: no interleaving of Send and Close calls on the shared handle sends
\* on a closed channel or closes a closed channel, and no Send is left
\* blocked for ever: every Send returns.
C13_SendCloseNeverPanics ==
    /\ hpanic \notin {"send on closed ch.queryQueue",
                      "close of closed ch.queryQueue",
                      "close of closed ch.response"}
    /\ \A g \in Goroutines : gpc[g] # "blocked"

\* Goroutine g begins a call op on the shared handle in this step.
Begins(g, op) == ncalls'[g] # ncalls[g] /\ gop'[g] = op

\* C14: a Send that begins after a Close has returned (the field
\* ch.queryQueue is nil) returns the handle-closed error at once: nothing
\* is handed to the forwarder or the queryListener and no channel changes.
C14_SendAfterCloseRefused ==
    [][\A g \in Goroutines :
         (Begins(g, "Send") /\ queryQueue = "nil")
            => /\ gpc'[g] = "idle"
               /\ gres'[g] = "handle closed"
               /\ UNCHANGED <<queryQueue, queryQueueCh, responseCh, fwd, fwdq,
                              lst, lstq, pending, nqueries, executed,
                              answered, hpanic>>]_vars

\* A Close has returned and a later Send got the handle-closed error.
C14_Witness ==
    \E g, k \in Goroutines :
        /\ gop[g] = "Send" /\ gpc[g] = "idle" /\ gres[g] = "handle closed"
        /\ gop[k] = "Close" /\ gpc[k] = "idle" /\ gres[k] = "closed"
        /\ queryQueue = "nil"
        /\ hpanic = "none"

\* C15: a Close that begins on the open handle goes on to close it and
\* returns nil; the forwarder then calls c.wg.Done() exactly once (unless
\* the process panicked first).  A Close that begins after a Close has
\* returned gets the already-closed error and changes neither a channel
\* nor the count of c.wg.Done() calls.
C15_CloseOnce ==
    /\ [][/\ \A g \in Goroutines :
               /\ (Begins(g, "Close") /\ queryQueue = "nil")
                     => /\ gpc'[g] = "idle"
                        /\ gres'[g] = "already closed"
                        /\ UNCHANGED <<queryQueue, queryQueueCh, responseCh,
                                       fwd, wgDone, hpanic>>
               /\ (Begins(g, "Close") /\ queryQueue = "chan")
                     => gpc'[g] = "closeQueue" /\ gres'[g] = "none"
               /\ (gpc[g] = "setNil" /\ gpc'[g] = "idle")
                     => gres'[g] = "closed" /\ queryQueue' = "nil"
          /\ wgDone' <= 1
          /\ wgDone' = 1 => queryQueueCh' = "closed"]_vars
    /\ (\E g \in Goroutines : gres[g] = "closed")
           ~> (wgDone = 1 \/ hpanic # "none")

\* The first Close returned nil, the forwarder called c.wg.Done(), and a
\* second Close got the already-closed error.
C15_Witness ==
    \E g \in Goroutines :
        /\ gop[g] = "Close" /\ gpc[g] = "idle" /\ gres[g] = "already closed"
        /\ ncalls[g] >= 2
        /\ wgDone = 1
        /\ hpanic = "none"
        /\ \A k \in Goroutines : gpc[k] = "idle"

\* ---- GetClientManager and NewClient ----

\* C16: no execution contains both a GetClientManager call that returned
\* the manager and a NewClient call that returned a Client.
C16_ModesExclusive == ~(managerReturned /\ clientReturned)

\* C17: while the handle has not been closed, its queries go through
\* Packager.Send in the order of their submission (queries are numbered in
\* that order), and their replies are returned in that order, each once.
C17_HandleFifo ==
    NotClosed =>
        /\ \A i \in 1..Len(executed) : executed[i].q = i
        /\ \A i \in 1..Len(answered) : answered[i] = i

\* Packager.Send has returned an error for some query.
ErrorSeen == \E i \in 1..Len(executed) : executed[i].res = "error"

\* Query n went through Packager.Send and a Send call returned its reply.
Answered(n) ==
    /\ \E i \in 1..Len(executed) : executed[i].q = n
    /\ \E i \in 1..Len(answered) : answered[i] = n

TornDown(d) ==
    /\ d <= nclients
    /\ \A h \in HandlesOf(d) : hstate[h] = "closed"
    /\ qq[d] = "nil"
    /\ wpc[d] = "exited"
    /\ transport[d] = "closed"

\* C19: when the registry answers a SetupClient call (with a valid Mode)
\* for a Host all of
\* whose clients have shut down, one of them with other settings, the
\* answer is never the mismatch error; unless opening the transport fails
\* it is a handle of a new client that runs under the settings of the
\* call and holds the Host's registry entry.
C19_RestartWithNewSettings ==
    [][\A u \in Callers :
         (~sresp[u].set /\ sresp'[u].set) =>
            LET cs == ucs'[u]
                old == {d \in 1..nclients : csettings[d].Host = cs.Host}
            IN  (/\ cs.Mode \in ValidModes
                 /\ \E d \in old : csettings[d] # cs
                 /\ \A d \in old : TornDown(d))
                => /\ sresp'[u].err \in {"none", "open"}
                   /\ sresp'[u].err = "none" =>
                         LET c == hcl'[sresp'[u].h] IN
                         /\ c = nclients + 1
                         /\ nclients' = c
                         /\ csettings'[c] = cs
                         /\ clients'[cs.Host] = c
                         /\ qq'[c] = "open"
                         /\ transport'[c] = "open"
                         /\ wpc'[c] = "idle"
                         /\ mpc'[c] = "wait"]_vars

\* A caller holds an open handle of a running client whose Host had a
\* client with other settings that has shut down.
C19_Witness ==
    \E u \in Callers, d \in ClientIds :
        /\ uh[u] # 0 /\ hstate[uh[u]] = "open"
        /\ LET c == hcl[uh[u]] IN
           /\ c # d
           /\ csettings[d].Host = csettings[c].Host
           /\ csettings[d] # csettings[c]
           /\ TornDown(d)
           /\ LiveWorker(c)
           /\ csettings[c].Mode \in ValidModes
           /\ clients[csettings[c].Host] = c

\* C20: when the registry answers a SetupClient call whose Mode is none of
\* ModeTCP, ModeRTU and ModeASCII, the answer is an error without a handle,
\* and no client object, queryListener, monitor, handle or registry entry
\* has been created.
C20_InvalidModeRejected ==
    [][\A u \in Callers :
         (~sresp[u].set /\ sresp'[u].set /\ ucs'[u].Mode \notin ValidModes)
            => /\ sresp'[u].err # "none"
               /\ sresp'[u].h = 0
               /\ nclients' = nclients
               /\ nhandles' = nhandles
               /\ wpc' = wpc
               /\ mpc' = mpc
               /\ clients' = clients]_vars

\* C21: when the registry answers a SetupClient call for a Host without
\* entry with the error of opening the transport, the answer carries no
\* handle, the Host still has no entry, no client, queryListener, monitor,
\* handle or forwarder has been created, and the next SetupClient for the
\* Host is again handled as a new client.
C21_FailedStartLeavesNothing ==
    [][\A u \in Callers :
         (~sresp[u].set /\ sresp'[u].set /\ sresp'[u].err = "open")
            => /\ sresp'[u].h = 0
               /\ clients'[ucs'[u].Host] = 0
               /\ nclients' = nclients
               /\ nhandles' = nhandles
               /\ wpc' = wpc
               /\ mpc' = mpc
               /\ fpc' = fpc
               /\ transport' = transport]_vars

\* A caller has been answered with the error of opening the transport and
\* has not returned yet; a second SetupClient for the same Host has been
\* answered with a handle of a freshly started client.
C21_Witness ==
    \E u \in Callers, v \in Callers :
        /\ u # v
        /\ upc[u] = "waitSetup" /\ sresp[u].set /\ sresp[u].err = "open"
        /\ upc[v] = "waitSetup" /\ sresp[v].set /\ sresp[v].err = "none"
        /\ ucs[v].Host = ucs[u].Host
        /\ nclients = 1
        /\ clients[ucs[u].Host] = 1
        /\ LiveWorker(1)

\* C22: for the function codes 0x01, 0x02, 0x03, 0x04, 0x0F and 0x10,
\* IsValid accepts a Query only if its Quantity is at least 1 and the
\* integer sum Address + Quantity is at most 2000, 2000, 125, 125, 2000 and
\* 123 respectively.
C22_RangeChecked ==
    (/\ qpc = "validated"
     /\ qry.FunctionCode \in {1, 2, 3, 4, 15, 16}
     /\ qvalid.ok)
        => /\ qry.Quantity >= 1
           /\ qry.Address + qry.Quantity
                 <= (CASE qry.FunctionCode \in {1, 2, 15} -> 2000
                       [] qry.FunctionCode \in {3, 4} -> 125
                       [] qry.FunctionCode = 16 -> 123)

\* C23: IsValid accepts a Query only if its function code is one of the
\* nine supported ones and, for a write function, len(Values) is 1 for
\* 0x05 and 0x06, the quantity divided by 16 and rounded up for 0x0F, the
\* quantity for 0x10 and 2 for 0x16; for 0x05, 0x06 and 0x16 that length is
\* also enough, and for a read function the verdict does not depend on
\* Values.
C23_FunctionAndLength ==
    qpc = "validated" =>
        LET fc == qry.FunctionCode
            n == Len(qry.Values)
        IN  /\ qvalid.ok =>
                 /\ fc \in {1, 2, 3, 4, 5, 6, 15, 16, 22}
                 /\ fc \in {5, 6} => n = 1
                 /\ fc = 15 => n = (qry.Quantity + 15) \div 16
                 /\ fc = 16 => n = qry.Quantity
                 /\ fc = 22 => n = 2
            /\ (fc \in {5, 6} /\ n = 1) => qvalid.ok
            /\ (fc = 22 /\ n = 2) => qvalid.ok
            /\ fc \in {1, 2, 3, 4} =>
                 \A v \in ValuesSet :
                     IsValid([qry EXCEPT !.Values = v]).ok = qvalid.ok

\* IsValid has accepted a Write Multiple Coils query of 17 coils with two
\* words of values.
C23_Witness ==
    /\ qpc = "validated"
    /\ qvalid.ok
    /\ qry.FunctionCode = FunctionWriteMultipleCoils
    /\ qry.Quantity = 17
    /\ Len(qry.Values) = 2

\* C24: for every Query that IsValid accepts, data returns: address and
\* quantity as big-endian words for a read; address and value for a single
\* write (0xFF00 or 0 for a coil); address, AND-mask and OR-mask for 0x16;
\* address, quantity, a count byte equal to 2 * quantity and the values as
\* big-endian words for 0x10; address, quantity, a count byte equal to the
\* quantity divided by 8 and rounded up, and that many leading bytes of the
\* big-endian encoding of Values for 0x0F.
C24_DataBytes ==
    (qpc = "framed" /\ qvalid.ok) =>
        LET fc == qry.FunctionCode
            d == qdata.data
            hi(v) == v \div 256
            lo(v) == v % 256
            byte(k) == IF k % 2 = 1 THEN hi(qry.Values[(k + 1) \div 2])
                                    ELSE lo(qry.Values[k \div 2])
            counted(n) ==
                /\ Len(d) = 5 + n
                /\ d[1] = hi(qry.Address) /\ d[2] = lo(qry.Address)
                /\ d[3] = hi(qry.Quantity) /\ d[4] = lo(qry.Quantity)
                /\ d[5] = n
                /\ \A k \in 1..n : d[5 + k] = byte(k)
        IN  /\ qdata.err = "none"
            /\ fc \in {1, 2, 3, 4} =>
                 d = <<hi(qry.Address), lo(qry.Address),
                       hi(qry.Quantity), lo(qry.Quantity)>>
            /\ fc = 5 =>
                 d = <<hi(qry.Address), lo(qry.Address),
                       IF qin[1] # 0 THEN 255 ELSE 0, 0>>
            /\ fc = 6 =>
                 d = <<hi(qry.Address), lo(qry.Address),
                       hi(qry.Values[1]), lo(qry.Values[1])>>
            /\ fc = 22 =>
                 d = <<hi(qry.Address), lo(qry.Address),
                       hi(qry.Values[1]), lo(qry.Values[1]),
                       hi(qry.Values[2]), lo(qry.Values[2])>>
            /\ fc = 16 => counted(2 * qry.Quantity)
            /\ fc = 15 => counted((qry.Quantity + 7) \div 8)

\* C25: the data of a valid Write Single Coil query carry 0xFF00 when the
\* value the query was built with is not zero and 0x0000 when it is zero,
\* whether the query was built by WriteSingleCoil(bool) or with Values[0]
\* set directly.
C25_CoilCoerced ==
    (/\ qpc = "framed"
     /\ qvalid.ok
     /\ qry.FunctionCode = FunctionWriteSingleCoil)
        => /\ Len(qdata.data) = 4
           /\ SubSeq(qdata.data, 3, 4)
                 = (IF qin[1] # 0 THEN <<255, 0>> ELSE <<0, 0>>)
           /\ qvia = "WriteSingleCoil(true)"
                 => SubSeq(qdata.data, 3, 4) = <<255, 0>>
           /\ qvia = "WriteSingleCoil(false)"
                 => SubSeq(qdata.data, 3, 4) = <<0, 0>>

\* data has framed a Write Single Coil query whose Values[0] was set
\* directly to a non-zero word other than 0xFF00.
C25_Witness ==
    /\ qpc = "framed"
    /\ qvalid.ok
    /\ qry.FunctionCode = FunctionWriteSingleCoil
    /\ qvia = "literal"
    /\ qin[1] \notin {0, 65280}
    /\ SubSeq(qdata.data, 3, 4) = <<255, 0>>

\* C26: a Send whose Query fails IsValid returns an error and nil data
\* without a Write or a Read on the transport and without a change of the
\* transaction id.
C26_ValidatesBeforeIO ==
    [][(nsends' = nsends + 1 /\ ~IsValid(pq').ok)
          => /\ ppc' = "returned"
             /\ pres'.err # "none"
             /\ pres'.data = <<>>
             /\ nwrites' = nwrites
             /\ nreads' = nreads
             /\ written' = <<>>
             /\ transactionID' = transactionID]_vars

\* The second Send on a TCP packager has returned the error of IsValid after
\* a first exchange that wrote one frame and advanced the transaction id.
C26_Witness ==
    /\ pmode = ModeTCP
    /\ ppc = "returned"
    /\ nsends = 2
    /\ ~IsValid(pq).ok
    /\ pres.err = IsValid(pq).err
    /\ nwrites = 1
    /\ nreads = 1
    /\ transactionID = 1

\* C27: a Send of a Query with slave id 0 on an RTU or ASCII packager
\* returns an error without a Write on the transport; on a TCP packager a
\* valid Query with slave id 0 is framed and handed to Write, the slave id
\* byte of the frame being 0.
C27_SlaveZero ==
    [][(nsends' = nsends + 1 /\ pq'.SlaveID = 0)
          => /\ pmode \in {ModeRTU, ModeASCII} =>
                  /\ ppc' = "returned"
                  /\ pres'.err # "none"
                  /\ pres'.data = <<>>
                  /\ nwrites' = nwrites
                  /\ written' = <<>>
             /\ (pmode = ModeTCP /\ IsValid(pq').ok) =>
                  /\ pres'.err \in {"none", "write error"}
                  /\ nwrites' = nwrites + 1
                  /\ Len(written') = 8 + Len(data(pq').data)
                  /\ written'[7] = 0
                  /\ written'[8] = pq'.FunctionCode]_vars

\* An RTU or ASCII packager has refused a Query that IsValid accepts
\* because its slave id is 0.
C27_Witness ==
    /\ pmode \in {ModeRTU, ModeASCII}
    /\ ppc = "returned"
    /\ pq.SlaveID = 0
    /\ IsValid(pq).ok
    /\ pres.err = "SlaveID cannot be 0"
    /\ nwrites = 0

\* The response Send handed to isValidResponse: Read succeeded and the
\* framing, the checksum and the transaction id were in order.
Validated ==
    /\ ppc \in {"returned", "panic"}
    /\ prsp.wrap = "good"

\* C28: isValidResponse reports the first check that fails, in the order
\* empty response, slave id, function or exception code, then the echo of
\* a write or the byte count and the length of a read: every response gets
\* a verdict, a wrong slave id yields SlaveIDMismatch whatever follows it,
\* and a wrong byte count yields BadResponseLength whatever the length.
C28_FirstFailingCheck ==
    Validated =>
        LET r == prsp.pdu
            fc == pq.FunctionCode
            e == pres.err
        IN  /\ e # "panic"
            /\ Len(r) = 0 => e = "EmptyResponse"
            /\ (Len(r) >= 1 /\ r[1] # pq.SlaveID) => e = "SlaveIDMismatch"
            /\ (Len(r) >= 2 /\ r[1] = pq.SlaveID /\ r[2] # fc) =>
                 e \notin {"none", "EmptyResponse", "SlaveIDMismatch",
                           "WriteDataMismatch", "BadResponseLength",
                           "ResponseLengthMismatch"}
            /\ (Len(r) >= 3 /\ r[1] = pq.SlaveID /\ r[2] = fc) =>
                 /\ (isReadFunction(fc) /\ r[3] # responseLen(pq))
                       => e = "BadResponseLength"
                 /\ (/\ isReadFunction(fc)
                     /\ r[3] = responseLen(pq)
                     /\ Len(r) - 3 # responseLen(pq))
                       => e = "ResponseLengthMismatch"
                 /\ (/\ isWriteFunction(fc)
                     /\ Len(r) >= 6
                     /\ SubSeq(r, 3, 6) # SubSeq(data(pq).data, 1, 4))
                       => e = "WriteDataMismatch"

\* C29: a response whose second byte is the request's function code with
\* bit 0x80 set yields the error of the exception code in its third byte,
\* a different error for each of 0x01, 0x02, 0x03, 0x04, 0x05, 0x06, 0x08,
\* 0x0A and 0x0B, and Unknown for every other third byte; a second byte
\* that is neither the function code nor the function code with bit 0x80
\* yields Unknown.
C29_ExceptionMapping ==
    /\ \A a, b \in {1, 2, 3, 4, 5, 6, 8, 10, 11} :
           /\ exceptions[a] # "Unknown"
           /\ a # b => exceptions[a] # exceptions[b]
    /\ (/\ Validated
        /\ Len(prsp.pdu) >= 2
        /\ prsp.pdu[1] = pq.SlaveID) =>
           LET r == prsp.pdu
               fc == pq.FunctionCode
           IN  /\ (Len(r) >= 3 /\ r[2] = fc + 128) =>
                     pres.err = IF r[3] \in {1, 2, 3, 4, 5, 6, 8, 10, 11}
                                THEN exceptions[r[3]]
                                ELSE "Unknown"
               /\ r[2] \notin {fc, fc + 128} => pres.err = "Unknown"

\* An exception frame with code 0x0B came back and Send returned the
\* error of that code.
C29_Witness ==
    /\ Validated
    /\ Len(prsp.pdu) = 3
    /\ prsp.pdu[1] = pq.SlaveID
    /\ prsp.pdu[2] = pq.FunctionCode + 128
    /\ prsp.pdu[3] = 11
    /\ pres.err = exceptions[11]
    /\ ppc = "returned"

\* The response answers the request as the protocol prescribes: the slave
\* id and the function code of the request, then for a read the expected
\* byte count and exactly that many bytes, for a write the first four
\* bytes of the request body.
WellFormed(q, r) ==
    /\ Len(r) >= 3
    /\ r[1] = q.SlaveID
    /\ r[2] = q.FunctionCode
    /\ isReadFunction(q.FunctionCode) =>
           /\ r[3] = responseLen(q)
           /\ Len(r) = 3 + responseLen(q)
    /\ isWriteFunction(q.FunctionCode) =>
           /\ Len(r) >= 6
           /\ SubSeq(r, 3, 6) = SubSeq(data(q).data, 1, 4)

\* C30: a well-formed response to a valid request passes isValidResponse,
\* and Send returns the bytes of the response from index 3 on for a read
\* and from index 2 on for a write.
C30_WellFormedAccepted ==
    (Validated /\ WellFormed(pq, prsp.pdu)) =>
        /\ ppc = "returned"
        /\ pres.err = "none"
        /\ pres.data = IF isReadFunction(pq.FunctionCode)
                       THEN SubSeq(prsp.pdu, 4, Len(prsp.pdu))
                       ELSE SubSeq(prsp.pdu, 3, Len(prsp.pdu))

\* Send returned the two data bytes of a read of nine coils.
C30_Witness ==
    /\ Validated
    /\ WellFormed(pq, prsp.pdu)
    /\ pq.FunctionCode = FunctionReadCoils
    /\ pq.Quantity = 9
    /\ Len(pres.data) = 2
    /\ pres.err = "none"

\* C31: no response makes isValidResponse panic: whatever bytes a frame
\* that passed the packager's own checks carries, and however few, Send
\* comes back with a payload or with an error.
C31_NoPanic ==
    Validated => (ppc = "returned" /\ pres.err # "panic")

\* C32: the transaction id of a TCP packager starts at 0, is the first two
\* bytes of every frame written, high byte first, grows by exactly one
\* with every exchange and follows 65535 with 0.
C32_TransactionID ==
    [][/\ (ppc = "none" /\ ppc' = "idle") => transactionID' = 0
       /\ (pmode = ModeTCP /\ ppc \in {"idle", "reading"}
             /\ ppc' \in {"reading", "returned", "panic"}) =>
            /\ written' # <<>> =>
                 /\ written'[1] = transactionID \div 256
                 /\ written'[2] = transactionID % 256
            /\ transactionID' =
                 IF ppc' = "reading" \/ written' = <<>> THEN transactionID
                 ELSE IF transactionID = 65535 THEN 0
                 ELSE transactionID + 1]_vars

\* The exchange whose frame began with 0xFF 0xFF is over and the counter
\* is back at 0.
C32_Witness ==
    /\ pmode = ModeTCP
    /\ ppc = "returned"
    /\ Len(written) >= 2
    /\ written[1] = 255
    /\ written[2] = 255
    /\ pres.err = "none"
    /\ transactionID = 0

\* C33: the TCP packager compares the transaction id of the response with
\* the one it sent before it checks anything else: a response with another
\* id fails with the transaction id error, whatever its body, and nothing
\* of it is returned.
C33_TransactionIDFirst ==
    (/\ pmode = ModeTCP
     /\ ppc \in {"returned", "panic"}
     /\ prsp.wrap = "badid") =>
        /\ ppc = "returned"
        /\ pres.err = "Mismatched transactionID"
        /\ pres.data = <<>>

\* A response of another slave came with another transaction id and Send
\* returned the transaction id error.
C33_Witness ==
    /\ pmode = ModeTCP
    /\ ppc = "returned"
    /\ prsp.wrap = "badid"
    /\ Len(prsp.pdu) >= 3
    /\ prsp.pdu[1] # pq.SlaveID
    /\ pres.err = "Mismatched transactionID"

\* C34: the frame the RTU packager writes is slave id, function code and
\* body followed by their CRC-16 (polynomial 0xA001, initial value 0xFFFF,
\* as in the frames 01 03 00 00 00 01 84 0A and 11 03 00 6B 00 03 76 87),
\* low byte first; such a frame passes the check made on reception; and a
\* response whose last two bytes are not the CRC of the bytes before them
\* is rejected with BadChecksum.
C34_RTUChecksum ==
    /\ (pmode = ModeRTU /\ written # <<>> /\ prsp.wrap = "none") =>
          LET n == Len(written)
              packet == SubSeq(written, 1, n - 2)
              sum == crc(packet)
          IN  /\ crc(<<1, 3, 0, 0, 0, 1>>) = 2692
              /\ crc(<<17, 3, 0, 107, 0, 3>>) = 34678
              /\ packet = <<pq.SlaveID, pq.FunctionCode>> \o data(pq).data
              /\ written[n - 1] = sum % 256
              /\ written[n] = sum \div 256
              /\ receiveRTU(pq, written).err # "BadChecksum"
    /\ (pmode = ModeRTU /\ ppc \in {"returned", "panic"}) =>
          /\ prsp.wrap = "badsum" =>
                pres = [data |-> <<>>, err |-> "BadChecksum"]
          /\ prsp.wrap = "good" => pres.err # "BadChecksum"

\* A well-formed response with a wrong CRC was rejected after the
\* packager had written a frame with two non-zero CRC bytes.
C34_Witness ==
    /\ pmode = ModeRTU
    /\ ppc = "returned"
    /\ prsp.wrap = "badsum"
    /\ WellFormed(pq, prsp.pdu)
    /\ pres.err = "BadChecksum"
    /\ written[Len(written)] # written[Len(written) - 1]

\* C35: the frame the ASCII packager writes is ':' followed by the
\* upper-case hex digits of slave id, function code, body and LRC, then
\* CR LF; the LRC is the two's complement of the 8-bit sum of the bytes
\* before it, so that all the raw bytes add up to 0 modulo 256; and the
\* frame of Read Coils, slave 1, address 1, quantity 1 has the LRC 0xFC.
C35_ASCIIFrame ==
    (pmode = ModeASCII /\ written # <<>> /\ prsp.wrap = "none") =>
        LET n == Len(written)
            rawN == (n - 3) \div 2
            raw == HexDecode(SubSeq(written, 2, n - 2), rawN)
            packet == <<pq.SlaveID, pq.FunctionCode>> \o data(pq).data
            example == [FunctionCode |-> FunctionReadCoils, SlaveID |-> 1,
                        Address |-> 1, Quantity |-> 1, Values |-> <<>>]
        IN  /\ n = 2 * (Len(packet) + 1) + 3
            /\ written[1] = 58
            /\ written[n - 1] = 13
            /\ written[n] = 10
            /\ \A i \in 2..(n - 2) :
                  written[i] \in (48..57) \cup (65..70)
            /\ SubSeq(raw, 1, rawN - 1) = packet
            /\ raw[rawN] = (256 - SumBytes(packet, 1)) % 256
            /\ SumBytes(raw, 1) = 0
            /\ generateADU(ModeASCII, 0, example).adu =
                  <<58, 48, 49, 48, 49, 48, 48, 48, 49, 48, 48, 48, 49,
                    70, 67, 13, 10>>

\* The ASCII packager has written a frame with a non-zero LRC and a hex
\* digit above 9.
C35_Witness ==
    /\ pmode = ModeASCII
    /\ ppc = "reading"
    /\ Len(written) >= 17
    /\ written[Len(written) - 3] \in 65..70
    /\ pq.FunctionCode = FunctionWriteMultipleCoils

\* C36: the codec functions are pure: IsValid and data leave the caller's
\* Query as it was, the elements of its Values included.
C36_CodecPure ==
    [][(qpc \in {"built", "validated"} /\ qpc' \in {"validated", "framed"})
          => (qry' = qry /\ qry'.Values = qin)]_vars

\* C37: the registry and a link's monitor never wait for each other: in no
\* state is handleClientRequest blocked at cl.mu.Lock() of a link whose
\* monitor holds that mutex and is blocked at its send on deleteClient.
C37_NoRegistryMonitorDeadlock ==
    ~ \E c \in ClientIds :
        /\ rpc = "lock"
        /\ rcl = c
        /\ mu[c] = "mon"
        /\ mpc[c] = "sendDelete"

\* C38: on a Client made by NewClient, concurrent NewClientHandle calls
\* start one worker, one monitor and one transport, not more, and every
\* handle a call has returned and that is still open is attached to that
\* running link.
C38_UnmanagedOneLink ==
    /\ Cardinality(kworkers) <= 1
    /\ Cardinality({m \in MonitorIds : kmon[m] \in {"wait", "lock"}}) <= 1
    /\ ktransports <= 1
    /\ \A g \in Openers :
           (oheld[g] /\ opc[g] = "idle") =>
               /\ kqq # 0
               /\ kworkers = {kqq}
               /\ ktransports = 1
               /\ \E m \in MonitorIds : kmon[m] \in {"wait", "lock"}

\* C39: the worker never waits for a reply to be collected: whatever
\* replies are still with their sendResponse goroutines, a queryListener
\* that is not inside Packager.Send takes the query the forwarder holds,
\* and a queryListener inside Packager.Send finishes it.
C39_WorkerNeverWaitsForCaller ==
    /\ (HandleRunning /\ fwd = "parked" /\ lst # "serving")
           => ENABLED HandleForward
    /\ (HandleRunning /\ lst = "serving")
           => ENABLED (\E res \in SendResults : HandleListenerSent(res))

\* The reply of one query has not been received and the worker is
\* executing a later query.
C39_Witness ==
    /\ HandleRunning
    /\ lst = "serving"
    /\ \E r \in pending : r.q < lstq

\* C40: a TCP link recovers from a response that came late: a request
\* whose own well-formed response reaches the transport before its Read
\* returns gets that response's payload, whether or not bytes of an earlier
\* exchange were still waiting there.
C40_RecoversFromLateResponse ==
    (/\ pmode = ModeTCP
     /\ ppc \in {"returned", "panic"}
     /\ prsp.wrap \in {"good", "behind"}
     /\ WellFormed(pq, prsp.pdu)) =>
        /\ pres.err = "none"
        /\ pres.data = payload(pq, prsp.pdu)

====
